---------------------------- MODULE Spec2Model ----------------------------
(***************************************************************************)
(* A model of the FBI crime statistics tool server: the four tools         *)
(* ucr_compare, ucr_forecast, ucr_history and ucr_info, each a             *)
(* request/response transformer over one or more outbound HTTP calls.      *)
(*                                                                         *)
(* Strings that the code lower-cases, upper-cases or strips are sequences  *)
(* of one-character strings, so that the conversions are computed.  Fixed  *)
(* message texts are TLA+ strings.  An output is a sequence of lines, each *)
(* a record naming the kind of line and the values the code puts in it.    *)
(***************************************************************************)
EXTENDS Integers, Sequences, FiniteSets, TLC

VARIABLES
    tool,      \* the tool (or helper) this behaviour invokes; "none" before the call
    pc,        \* position of the invocation: "idle", an await point, or "done"
    args,      \* the arguments of the invocation
    locals,    \* the normalized arguments, once the checks have passed
    calls,     \* the outbound HTTP calls issued so far, in order, each with its answer
    tasks,     \* ucr_compare: the fetch_offense_data task of every list position
    finished,  \* ucr_compare: list positions in the order their tasks completed
    gathered,  \* ucr_compare: the result list the join returned
    outcome    \* what the invocation gave its caller: nothing yet, a value, an exception

vars == <<tool, pc, args, locals, calls, tasks, finished, gathered, outcome>>

-----------------------------------------------------------------------------
(* Python values *)

\* None where the code expects a string (str | None): no sequence of characters equals it
None == <<"None">>

\* None where the code expects a dict or a message (dict | None): no JSON object has this key
NoValue == [none |-> TRUE]
IsNone(v) == "none" \in DOMAIN v
\* None where a list is expected
NoList == <<NoValue>>
IsNoList(v) == v = NoList
\* {}
EmptyDict == <<>>
\* an optional number that is present
Number(n) == [value |-> n]
\* a year and month, 'YYYY-MM' in the upstream's JSON
Date(year, month) == [year |-> year, month |-> month]
NATIONAL == <<"n","a","t","i","o","n","a","l">>

\* a message text, so that a message and None can stand in the same place
Message(text) == [text |-> text]

Return(v) == [raised |-> FALSE, value |-> v]
Raise(e) == [raised |-> TRUE, exc |-> e]

SetMin(S) == CHOOSE x \in S : \A y \in S : x <= y
SetMax(S) == CHOOSE x \in S : \A y \in S : y <= x

-----------------------------------------------------------------------------
(* str.lower, str.upper, str.strip, str.replace, str.title *)

UPPERCASE == <<"A","B","C","D","E","F","G","H","I","J","K","L","M",
               "N","O","P","Q","R","S","T","U","V","W","X","Y","Z">>
LOWERCASE == <<"a","b","c","d","e","f","g","h","i","j","k","l","m",
               "n","o","p","q","r","s","t","u","v","w","x","y","z">>
WHITESPACE == {" ", "\t", "\n"}

UpperLetters == {UPPERCASE[i] : i \in DOMAIN UPPERCASE}
LowerLetters == {LOWERCASE[i] : i \in DOMAIN LOWERCASE}
ToLower == [c \in UpperLetters |-> LOWERCASE[CHOOSE i \in DOMAIN UPPERCASE : UPPERCASE[i] = c]]
ToUpper == [c \in LowerLetters |-> UPPERCASE[CHOOSE i \in DOMAIN LOWERCASE : LOWERCASE[i] = c]]

IsLetter(c) == c \in UpperLetters \/ c \in LowerLetters

lower_char(c) == IF c \in UpperLetters THEN ToLower[c] ELSE c

upper_char(c) == IF c \in LowerLetters THEN ToUpper[c] ELSE c

lower(s) == [i \in 1..Len(s) |-> lower_char(s[i])]

upper(s) == [i \in 1..Len(s) |-> upper_char(s[i])]

strip(s) ==
    LET kept == {i \in 1..Len(s) : s[i] \notin WHITESPACE}
    IN  IF kept = {} THEN <<>> ELSE SubSeq(s, SetMin(kept), SetMax(kept))

\* s.replace(old, new) for one-character old and new
replace(s, old, new) == [i \in 1..Len(s) |-> IF s[i] = old THEN new ELSE s[i]]

\* s.title(): a letter that follows a non-letter is upper-cased, every other letter lower-cased
title(s) ==
    [i \in 1..Len(s) |->
        IF i = 1 \/ ~IsLetter(s[i-1])
        THEN upper_char(s[i]) ELSE lower_char(s[i])]

-----------------------------------------------------------------------------
(* The closed sets and the alias tables *)

violent_crime == <<"v","i","o","l","e","n","t","-","c","r","i","m","e">>
property_crime == <<"p","r","o","p","e","r","t","y","-","c","r","i","m","e">>
homicide == <<"h","o","m","i","c","i","d","e">>
burglary == <<"b","u","r","g","l","a","r","y">>
motor_vehicle_theft ==
    <<"m","o","t","o","r","-","v","e","h","i","c","l","e","-","t","h","e","f","t">>

VALID_OFFENSES ==
    {violent_crime, property_crime, homicide, burglary, motor_vehicle_theft}

VALID_STATES == {<<"C","A">>, <<"T","X">>, <<"F","L">>, <<"N","Y">>, <<"I","L">>}

STATE_NAMES ==
    { << <<"C","A">>, "California" >>,
      << <<"T","X">>, "Texas" >>,
      << <<"F","L">>, "Florida" >>,
      << <<"N","Y">>, "New York" >>,
      << <<"I","L">>, "Illinois" >> }

\* dict[key]; used only where key is a key of the dict
Lookup(dict, key) == (CHOOSE kv \in dict : kv[1] = key)[2]
Keys(dict) == {kv[1] : kv \in dict}

\* dict.get(key, default)
Get(dict, key, default) == IF key \in Keys(dict) THEN Lookup(dict, key) ELSE default

compare_OFFENSE_ALIASES ==
    { << <<"v","i","o","l","e","n","t">>, violent_crime >>,   \* "violent"
      << <<"v","i","o","l","e","n","t"," ","c","r","i","m","e">>, violent_crime >>,   \* "violent crime"
      << <<"v","i","o","l","e","n","t","_","c","r","i","m","e">>, violent_crime >>,   \* "violent_crime"
      << <<"p","r","o","p","e","r","t","y">>, property_crime >>,   \* "property"
      << <<"p","r","o","p","e","r","t","y"," ","c","r","i","m","e">>, property_crime >>,   \* "property crime"
      << <<"p","r","o","p","e","r","t","y","_","c","r","i","m","e">>, property_crime >>,   \* "property_crime"
      << <<"m","u","r","d","e","r">>, homicide >>,   \* "murder"
      << <<"m","v","t">>, motor_vehicle_theft >>,   \* "mvt"
      << <<"v","e","h","i","c","l","e"," ","t","h","e","f","t">>, motor_vehicle_theft >>,   \* "vehicle theft"
      << <<"v","e","h","i","c","l","e","-","t","h","e","f","t">>, motor_vehicle_theft >>,   \* "vehicle-theft"
      << <<"c","a","r"," ","t","h","e","f","t">>, motor_vehicle_theft >>,   \* "car theft"
      << <<"m","o","t","o","r"," ","v","e","h","i","c","l","e"," ","t","h","e","f","t">>, motor_vehicle_theft >>,   \* "motor vehicle theft"
      << <<"m","o","t","o","r","_","v","e","h","i","c","l","e","_","t","h","e","f","t">>, motor_vehicle_theft >> }   \* "motor_vehicle_theft"

forecast_OFFENSE_ALIASES ==
    { << <<"v","i","o","l","e","n","t","_","c","r","i","m","e">>, violent_crime >>,   \* "violent_crime"
      << <<"v","i","o","l","e","n","t","c","r","i","m","e">>, violent_crime >>,   \* "violentcrime"
      << <<"v","i","o","l","e","n","t">>, violent_crime >>,   \* "violent"
      << <<"p","r","o","p","e","r","t","y","_","c","r","i","m","e">>, property_crime >>,   \* "property_crime"
      << <<"p","r","o","p","e","r","t","y","c","r","i","m","e">>, property_crime >>,   \* "propertycrime"
      << <<"p","r","o","p","e","r","t","y">>, property_crime >>,   \* "property"
      << <<"m","u","r","d","e","r">>, homicide >>,   \* "murder"
      << <<"h","o","m","i","c","i","d","e","s">>, homicide >>,   \* "homicides"
      << <<"b","u","r","g","l","a","r","i","e","s">>, burglary >>,   \* "burglaries"
      << <<"b","r","e","a","k","-","i","n">>, burglary >>,   \* "break-in"
      << <<"b","r","e","a","k","i","n","g","-","a","n","d","-","e","n","t","e","r","i","n","g">>, burglary >>,   \* "breaking-and-entering"
      << <<"m","o","t","o","r","_","v","e","h","i","c","l","e","_","t","h","e","f","t">>, motor_vehicle_theft >>,   \* "motor_vehicle_theft"
      << <<"m","o","t","o","r","v","e","h","i","c","l","e","t","h","e","f","t">>, motor_vehicle_theft >>,   \* "motorvehicletheft"
      << <<"v","e","h","i","c","l","e","-","t","h","e","f","t">>, motor_vehicle_theft >>,   \* "vehicle-theft"
      << <<"c","a","r","-","t","h","e","f","t">>, motor_vehicle_theft >>,   \* "car-theft"
      << <<"a","u","t","o","-","t","h","e","f","t">>, motor_vehicle_theft >>,   \* "auto-theft"
      << <<"m","v","t">>, motor_vehicle_theft >> }   \* "mvt"

history_OFFENSE_ALIASES ==
    { << <<"v","i","o","l","e","n","t","_","c","r","i","m","e">>, violent_crime >>,   \* "violent_crime"
      << <<"v","i","o","l","e","n","t","c","r","i","m","e">>, violent_crime >>,   \* "violentcrime"
      << <<"v","i","o","l","e","n","t">>, violent_crime >>,   \* "violent"
      << <<"p","r","o","p","e","r","t","y","_","c","r","i","m","e">>, property_crime >>,   \* "property_crime"
      << <<"p","r","o","p","e","r","t","y","c","r","i","m","e">>, property_crime >>,   \* "propertycrime"
      << <<"p","r","o","p","e","r","t","y">>, property_crime >>,   \* "property"
      << <<"m","u","r","d","e","r">>, homicide >>,   \* "murder"
      << <<"h","o","m","i","c","i","d","e","s">>, homicide >>,   \* "homicides"
      << <<"b","u","r","g","l","a","r","i","e","s">>, burglary >>,   \* "burglaries"
      << <<"b","r","e","a","k","-","i","n">>, burglary >>,   \* "break-in"
      << <<"m","o","t","o","r","_","v","e","h","i","c","l","e","_","t","h","e","f","t">>, motor_vehicle_theft >>,   \* "motor_vehicle_theft"
      << <<"m","o","t","o","r","v","e","h","i","c","l","e","t","h","e","f","t">>, motor_vehicle_theft >>,   \* "motorvehicletheft"
      << <<"v","e","h","i","c","l","e","-","t","h","e","f","t">>, motor_vehicle_theft >>,   \* "vehicle-theft"
      << <<"c","a","r","-","t","h","e","f","t">>, motor_vehicle_theft >>,   \* "car-theft"
      << <<"a","u","t","o","-","t","h","e","f","t">>, motor_vehicle_theft >>,   \* "auto-theft"
      << <<"m","v","t">>, motor_vehicle_theft >> }   \* "mvt"

-----------------------------------------------------------------------------
(* Exceptions *)

ToolError(message, detail) == [type |-> "ToolError", message |-> message, detail |-> detail]

\* the classes an exception of each concrete type is an instance of
EXCEPTION_BASES ==
    { << "ReadTimeout", {"ReadTimeout", "TimeoutException", "TransportError",
                         "RequestError", "HTTPError", "Exception"} >>,
      << "ConnectError", {"ConnectError", "NetworkError", "TransportError",
                          "RequestError", "HTTPError", "Exception"} >>,
      << "HTTPStatusError", {"HTTPStatusError", "HTTPError", "Exception"} >>,
      << "JSONDecodeError", {"JSONDecodeError", "ValueError", "Exception"} >>,
      << "ValueError", {"ValueError", "Exception"} >>,
      << "ToolError", {"ToolError", "Exception"} >> }

isinstance(exc, cls) == cls \in Lookup(EXCEPTION_BASES, exc.type)

-----------------------------------------------------------------------------
(* Normalizers: one copy per tool, as in the source *)

compare_normalize_offense(offense) ==
    LET normalized == strip(lower(offense))
    IN  IF normalized \in VALID_OFFENSES THEN Return(normalized)
        ELSE IF normalized \in Keys(compare_OFFENSE_ALIASES)
        THEN Return(Lookup(compare_OFFENSE_ALIASES, normalized))
        ELSE Raise([type |-> "ValueError", arg |-> offense])

compare_normalize_state(state) ==
    IF state = None THEN Return(None)
    ELSE LET cleaned == strip(upper(state))
         IN  IF cleaned \in VALID_STATES THEN Return(cleaned)
             ELSE Raise([type |-> "ValueError", arg |-> state])

forecast_normalize_offense(offense) ==
    LET cleaned == strip(lower(offense))
    IN  IF cleaned \in VALID_OFFENSES THEN Return(cleaned)
        ELSE IF cleaned \in Keys(forecast_OFFENSE_ALIASES)
        THEN Return(Lookup(forecast_OFFENSE_ALIASES, cleaned))
        ELSE Raise(ToolError("Unknown offense type", offense))

forecast_normalize_state(state) ==
    IF state = None THEN Return(None)
    ELSE LET cleaned == strip(upper(state))
         IN  IF cleaned \in VALID_STATES THEN Return(cleaned)
             ELSE Raise(ToolError("Unknown state code", state))

\* normalize_offense looking its input up as it is given
history_normalize_offense_as_given(offense) ==
    IF offense \in VALID_OFFENSES THEN Return(offense)
    ELSE IF offense \in Keys(history_OFFENSE_ALIASES)
    THEN Return(Lookup(history_OFFENSE_ALIASES, offense))
    ELSE Raise(ToolError("Unknown offense type", offense))

\* normalize_offense reading a space as a hyphen
history_normalize_offense_spaces(offense) ==
    LET cleaned == replace(strip(lower(offense)), " ", "-")
    IN  IF cleaned \in VALID_OFFENSES THEN Return(cleaned)
        ELSE IF cleaned \in Keys(history_OFFENSE_ALIASES)
        THEN Return(Lookup(history_OFFENSE_ALIASES, cleaned))
        ELSE Raise(ToolError("Unknown offense type", offense))

history_normalize_offense(offense) ==
    LET cleaned == strip(lower(offense))
    IN  IF cleaned \in VALID_OFFENSES THEN Return(cleaned)
        ELSE IF cleaned \in Keys(history_OFFENSE_ALIASES)
        THEN Return(Lookup(history_OFFENSE_ALIASES, cleaned))
        ELSE Raise(ToolError("Unknown offense type", offense))

\* normalize_state taking every falsy input, the empty string too, for None
history_normalize_state_falsy(state) ==
    IF state = None \/ state = <<>> THEN Return(None)
    ELSE LET cleaned == strip(upper(state))
         IN  IF cleaned \in VALID_STATES THEN Return(cleaned)
             ELSE Raise(ToolError("Unknown state code", state))

history_normalize_state(state) ==
    IF state = None THEN Return(None)
    ELSE LET cleaned == strip(upper(state))
         IN  IF cleaned \in VALID_STATES THEN Return(cleaned)
             ELSE Raise(ToolError("Unknown state code", state))

\* 'Motor Vehicle Theft' for 'motor-vehicle-theft'
format_offense_name(offense) == title(replace(offense, "-", " "))

-----------------------------------------------------------------------------
(* Outbound HTTP.  The upstream answers a call with a response (a status   *)
(* code and a body, which may fail to parse as JSON), or the call times    *)
(* out, or the connection fails.                                           *)

Pending == [kind |-> "pending"]
Response(status_code, body) == [kind |-> "response", status_code |-> status_code, body |-> body]
TimedOut == [kind |-> "timeout"]
ConnectFailed == [kind |-> "connect", detail |-> "Connection refused"]
\* a call whose answer has been handed to the coroutine that awaited it
Answered == [kind |-> "answered"]

\* a body that is not JSON
NotJson == [not_json |-> TRUE]

\* dict.get(key, default) on a JSON object
JsonGet(obj, key, default) == IF key \in DOMAIN obj THEN obj[key] ELSE default

\* await client.post(...) / await client.get(...)
client_request(answer) ==
    IF answer.kind = "timeout"
    THEN Raise([type |-> "ReadTimeout", message |-> "The read operation timed out"])
    ELSE IF answer.kind = "connect"
    THEN Raise([type |-> "ConnectError", message |-> answer.detail])
    ELSE Return(answer)

\* response.raise_for_status()
raise_for_status(response) ==
    IF response.status_code \in 200..299 THEN Return(response)
    ELSE Raise([type |-> "HTTPStatusError", status_code |-> response.status_code,
                text |-> response.body])

\* response.json()
response_json(response) ==
    IF response.body = NotJson THEN Raise([type |-> "JSONDecodeError"])
    ELSE Return(response.body)

\* the request, raise_for_status() and json() in sequence
request_json(answer) ==
    LET sent == client_request(answer)
    IN  IF sent.raised THEN sent
        ELSE LET checked == raise_for_status(sent.value)
             IN  IF checked.raised THEN checked ELSE response_json(checked.value)

NewCall(method, endpoint, offense, params) ==
    [method |-> method, endpoint |-> endpoint, offense |-> offense,
     params |-> params, answer |-> Pending]

-----------------------------------------------------------------------------
(* ucr_compare: helpers *)

MIN_OFFENSES == 2
MAX_OFFENSES == 5
SIGNIFICANT_CHANGE == 10

fetch_prediction(answer) == request_json(answer)

fetch_history(answer) == request_json(answer)

\* fetch_offense_data without its clause for timeouts
fetch_offense_data_except_no_timeout(offense, exc) ==
    IF isinstance(exc, "HTTPStatusError")
    THEN Return(<<offense, NoValue, NoValue,
                  Message("API error: " \o ToString(exc.status_code))>>)
    ELSE IF isinstance(exc, "ConnectError")
    THEN Return(<<offense, NoValue, NoValue, Message("Connection error: " \o exc.message)>>)
    ELSE Raise(exc)

\* the except clauses of fetch_offense_data, in the order the code lists them
fetch_offense_data_except(offense, exc) ==
    IF isinstance(exc, "HTTPStatusError")
    THEN Return(<<offense, NoValue, NoValue,
                  Message("API error: " \o ToString(exc.status_code))>>)
    ELSE IF isinstance(exc, "TimeoutException")
    THEN Return(<<offense, NoValue, NoValue, Message("Request timed out")>>)
    ELSE IF isinstance(exc, "RequestError")
    THEN Return(<<offense, NoValue, NoValue, Message("Connection error: " \o exc.message)>>)
    ELSE Raise(exc)

\* fetch_offense_data when both gathered calls returned
fetch_offense_data_return(offense, prediction, history) ==
    Return(<<offense, prediction, history, NoValue>>)

\* A percent change is a ratio num/den with den > 0, or +infinity.  The
\* values are whole counts, for which the code's floating-point result
\* compares with 0 and with 10 as the exact ratio does.
Ratio(num, den) ==
    IF den > 0 THEN [inf |-> FALSE, num |-> num, den |-> den]
    ELSE [inf |-> FALSE, num |-> -num, den |-> -den]
Infinity == [inf |-> TRUE, num |-> 1, den |-> 0]

PctGreater(p, k) == p.inf \/ p.num > k * p.den
PctLess(p, k) == ~p.inf /\ p.num < k * p.den
PctAbs(p) == IF p.num < 0 THEN [p EXCEPT !.num = -p.num] ELSE p

\* calculate_percent_change answering 0 for every change from 0
calculate_percent_change_zero_base(current, forecast) ==
    IF current = 0 THEN Ratio(0, 1)
    ELSE Ratio((forecast - current) * 100, current)

calculate_percent_change(current, forecast) ==
    IF current = 0
    THEN (IF forecast = 0 THEN Ratio(0, 1) ELSE Infinity)
    ELSE Ratio((forecast - current) * 100, current)

\* the elements of a finite set of integers, ascending
RECURSIVE Ascending(_)
Ascending(S) ==
    IF S = {} THEN <<>> ELSE <<SetMin(S)>> \o Ascending(S \ {SetMin(S)})

\* the list positions of the results the row loop does not skip / skips
RowPositions(results) ==
    Ascending({i \in DOMAIN results : IsNone(results[i][4]) \/ results[i][4].text = ""})
ErrorPositions(results) ==
    Ascending({i \in DOMAIN results : ~IsNone(results[i][4]) /\ results[i][4].text # ""})

current_value_of(history) ==
    IF ~IsNone(history) /\ DOMAIN history # {} /\ "data" \in DOMAIN history
       /\ Len(history.data) > 0
    THEN LET last == history.data[Len(history.data)]
         IN  JsonGet(last, "actual", JsonGet(last, "count", 0))
    ELSE 0

forecast_value_of(prediction) ==
    IF ~IsNone(prediction) /\ DOMAIN prediction # {} /\ "predictions" \in DOMAIN prediction
       /\ Len(prediction.predictions) > 0
    THEN JsonGet(prediction.predictions[Len(prediction.predictions)], "predicted", 0)
    ELSE 0

has_metadata(prediction) ==
    ~IsNone(prediction) /\ DOMAIN prediction # {} /\ "metadata" \in DOMAIN prediction

\* abs(pct_change) >= 10
is_significant_inclusive(pct_change) == ~PctLess(PctAbs(pct_change), SIGNIFICANT_CHANGE)

\* abs(pct_change) > 10
is_significant(pct_change) == PctGreater(PctAbs(pct_change), SIGNIFICANT_CHANGE)

direction_of(pct_change) == IF PctGreater(pct_change, 0) THEN "increase" ELSE "decrease"

comparison_row(result, metric) ==
    LET current_value == current_value_of(result[3])
        forecast_value == forecast_value_of(result[2])
        pct_change == calculate_percent_change(current_value, forecast_value)
    IN  IF metric = "percent_change"
        THEN [line |-> "row", offense |-> format_offense_name(result[1]),
              current |-> current_value, forecast |-> forecast_value,
              change |-> pct_change, plus_sign |-> ~PctLess(pct_change, 0),
              marker |-> is_significant(pct_change)]
        ELSE [line |-> "row", offense |-> format_offense_name(result[1]),
              current |-> current_value, forecast |-> forecast_value]

\* the warnings given in either metric
comparison_warnings_any_metric(results, metric) ==
    LET rows == RowPositions(results)
        pct(i) == calculate_percent_change(current_value_of(results[i][3]),
                                           forecast_value_of(results[i][2]))
        warned == {k \in DOMAIN rows : is_significant(pct(rows[k]))}
        order == Ascending(warned)
    IN  [k \in DOMAIN order |->
            [line |-> "warning", offense |-> format_offense_name(results[rows[order[k]]][1]),
             direction |-> direction_of(pct(rows[order[k]]))]]

comparison_warnings(results, metric) ==
    LET rows == RowPositions(results)
        pct(i) == calculate_percent_change(current_value_of(results[i][3]),
                                           forecast_value_of(results[i][2]))
        warned == {k \in DOMAIN rows : metric = "percent_change" /\ is_significant(pct(rows[k]))}
        order == Ascending(warned)
    IN  [k \in DOMAIN order |->
            [line |-> "warning", offense |-> format_offense_name(results[rows[order[k]]][1]),
             direction |-> direction_of(pct(rows[order[k]]))]]

comparison_errors(results) ==
    LET failed == ErrorPositions(results)
    IN  [k \in DOMAIN failed |->
            [line |-> "error", offense |-> format_offense_name(results[failed[k]][1]),
             message |-> results[failed[k]][4].text]]

\* s with every occurrence of the sequence sub removed: s.replace(sub, "")
RECURSIVE remove_all(_, _)
remove_all(s, sub) ==
    IF Len(s) < Len(sub) \/ Len(sub) = 0 THEN s
    ELSE IF SubSeq(s, 1, Len(sub)) = sub
    THEN remove_all(SubSeq(s, Len(sub) + 1, Len(s)), sub)
    ELSE <<s[1]>> \o remove_all(Tail(s), sub)

\* 'violent' for 'violent-crime', 'motor vehicle theft' for 'motor-vehicle-theft'
short_name(offense) == replace(remove_all(offense, <<"-","c","r","i","m","e">>), "-", " ")

\* the footer line, or no line when no fetched prediction carries metadata
comparison_footer(results) ==
    LET rows == RowPositions(results)
        with_meta == {k \in DOMAIN rows : has_metadata(results[rows[k]][2])}
        meta(k) == results[rows[k]][2].metadata
        offense(k) == results[rows[k]][1]
        \* models_info: keyed by offense, in order of first insertion, last value kept
        first_of == Ascending({k \in with_meta :
                                 \A j \in with_meta : offense(j) = offense(k) => k <= j})
        model_of(k) ==
            JsonGet(meta(SetMax({j \in with_meta : offense(j) = offense(k)})),
                    "model_type", "Unknown")
        \* model_to_offenses: keyed by model, in order of first insertion
        first_model == Ascending({i \in DOMAIN first_of :
                                    \A j \in DOMAIN first_of :
                                        model_of(first_of[j]) = model_of(first_of[i]) => i <= j})
        members(i) == Ascending({j \in DOMAIN first_of :
                                   model_of(first_of[j]) = model_of(first_of[first_model[i]])})
        model_parts ==
            [i \in DOMAIN first_model |->
                [model |-> model_of(first_of[first_model[i]]),
                 offenses |-> [j \in DOMAIN members(i) |->
                                  short_name(offense(first_of[members(i)[j]]))]]]
        training_ends == {meta(k).training_end :
                            k \in {j \in with_meta : "training_end" \in DOMAIN meta(j)}}
        training_end == IF Cardinality(training_ends) = 1
                        THEN CHOOSE t \in training_ends : TRUE ELSE "varies"
    IN  IF with_meta = {} THEN <<>>
        ELSE <<[line |-> "footer", models |-> model_parts, training_end |-> training_end]>>

BlankLine == [line |-> "blank"]

\* format_comparison_output with the error lines ahead of the warning lines
format_comparison_output_errors_first(results, months_ahead, metric, state) ==
    LET location == IF state # None /\ state # <<>>
                    THEN Get(STATE_NAMES, state, state) ELSE "National"
        rows == RowPositions(results)
        warnings == comparison_warnings(results, metric)
        errors == comparison_errors(results)
    IN  << [line |-> "title", location |-> location, months_ahead |-> months_ahead],
           BlankLine,
           [line |-> "header", change_column |-> (metric = "percent_change")] >>
        \o [k \in DOMAIN rows |-> comparison_row(results[rows[k]], metric)]
        \o <<BlankLine>>
        \o errors
        \o (IF Len(errors) > 0 THEN <<BlankLine>> ELSE <<>>)
        \o warnings
        \o (IF Len(warnings) > 0 THEN <<BlankLine>> ELSE <<>>)
        \o comparison_footer(results)

format_comparison_output(results, months_ahead, metric, state) ==
    LET location == IF state # None /\ state # <<>>
                    THEN Get(STATE_NAMES, state, state) ELSE "National"
        rows == RowPositions(results)
        warnings == comparison_warnings(results, metric)
        errors == comparison_errors(results)
    IN  << [line |-> "title", location |-> location, months_ahead |-> months_ahead],
           BlankLine,
           [line |-> "header", change_column |-> (metric = "percent_change")] >>
        \o [k \in DOMAIN rows |-> comparison_row(results[rows[k]], metric)]
        \o <<BlankLine>>
        \o warnings
        \o (IF Len(warnings) > 0 THEN <<BlankLine>> ELSE <<>>)
        \o errors
        \o (IF Len(errors) > 0 THEN <<BlankLine>> ELSE <<>>)
        \o comparison_footer(results)

-----------------------------------------------------------------------------
(* ucr_compare: the entry point *)

\* the list entries that do not normalize, in list order
invalid_offenses_of(offenses) ==
    SelectSeq(offenses, LAMBDA o : compare_normalize_offense(o).raised)

normalized_offenses_of(offenses) ==
    LET kept == SelectSeq(offenses, LAMBDA o : ~compare_normalize_offense(o).raised)
    IN  [i \in DOMAIN kept |-> compare_normalize_offense(kept[i]).value]

\* the entry with the hint given to every input that has an underscore
suggestion_for_any_underscore(invalid) ==
    LET invalid_lower == strip(lower(invalid))
        suggestion == replace(invalid_lower, "_", "-")
    IN  IF \E i \in DOMAIN invalid_lower : invalid_lower[i] = "_"
        THEN [input |-> invalid, text |-> "Did you mean", suggestion |-> suggestion]
        ELSE [input |-> invalid, text |-> "is not recognized"]

\* one entry of the invalid-offense message
suggestion_for(invalid) ==
    LET invalid_lower == strip(lower(invalid))
        suggestion == replace(invalid_lower, "_", "-")
    IN  IF (\E i \in DOMAIN invalid_lower : invalid_lower[i] = "_")
           /\ suggestion \in VALID_OFFENSES
        THEN [input |-> invalid, text |-> "Did you mean", suggestion |-> suggestion]
        ELSE [input |-> invalid, text |-> "is not recognized"]

\* the checks with the state checked before the count
ucr_compare_validate_state_first(offenses, state) ==
    IF state # None /\ compare_normalize_state(state).raised
    THEN Raise(ToolError("Invalid state code", state))
    ELSE IF Len(offenses) < MIN_OFFENSES
    THEN Raise(ToolError("At least 2 offenses are required for comparison.", Len(offenses)))
    ELSE IF Len(offenses) > MAX_OFFENSES
    THEN Raise(ToolError("Maximum 5 offenses can be compared at once.", Len(offenses)))
    ELSE IF Len(invalid_offenses_of(offenses)) > 0
    THEN Raise(ToolError("Invalid offense(s) in list",
                         LET invalid == invalid_offenses_of(offenses)
                         IN  [k \in DOMAIN invalid |-> suggestion_for(invalid[k])]))
    ELSE Return([offenses |-> normalized_offenses_of(offenses),
                 state |-> IF state = None THEN None
                           ELSE compare_normalize_state(state).value])

\* the checks stopping at the first list entry that does not normalize
ucr_compare_validate_first_invalid(offenses, state) ==
    IF Len(offenses) < MIN_OFFENSES
    THEN Raise(ToolError("At least 2 offenses are required for comparison.", Len(offenses)))
    ELSE IF Len(offenses) > MAX_OFFENSES
    THEN Raise(ToolError("Maximum 5 offenses can be compared at once.", Len(offenses)))
    ELSE IF state # None /\ compare_normalize_state(state).raised
    THEN Raise(ToolError("Invalid state code", state))
    ELSE IF Len(invalid_offenses_of(offenses)) > 0
    THEN Raise(ToolError("Invalid offense(s) in list",
                         <<suggestion_for(invalid_offenses_of(offenses)[1])>>))
    ELSE Return([offenses |-> normalized_offenses_of(offenses),
                 state |-> IF state = None THEN None
                           ELSE compare_normalize_state(state).value])

\* the checks of ucr_compare before any call: an error, or the normalized arguments
ucr_compare_validate(offenses, state) ==
    IF Len(offenses) < MIN_OFFENSES
    THEN Raise(ToolError("At least 2 offenses are required for comparison.", Len(offenses)))
    ELSE IF Len(offenses) > MAX_OFFENSES
    THEN Raise(ToolError("Maximum 5 offenses can be compared at once.", Len(offenses)))
    ELSE IF state # None /\ compare_normalize_state(state).raised
    THEN Raise(ToolError("Invalid state code", state))
    ELSE IF Len(invalid_offenses_of(offenses)) > 0
    THEN Raise(ToolError("Invalid offense(s) in list",
                         LET invalid == invalid_offenses_of(offenses)
                         IN  [k \in DOMAIN invalid |-> suggestion_for(invalid[k])]))
    ELSE Return([offenses |-> normalized_offenses_of(offenses),
                 state |-> IF state = None THEN None
                           ELSE compare_normalize_state(state).value])

\* query parameters: the state is sent only when one was given
WithState(params, state) ==
    IF state = None \/ state = <<>> THEN params
    ELSE [k \in DOMAIN params \cup {"state"} |-> IF k = "state" THEN state ELSE params[k]]

\* the calls the N fetch_offense_data tasks issue: a POST and a GET per list position
compare_calls(offenses, months_ahead, state) ==
    [c \in 1..(2 * Len(offenses)) |->
        IF c % 2 = 1
        THEN NewCall("POST", "/api/v1/predict", offenses[(c + 1) \div 2],
                     WithState([json_months |-> months_ahead], state))
        ELSE NewCall("GET", "/api/v1/history", offenses[c \div 2],
                     WithState([months |-> 1], state))]

\* a join that hands the results over in the order the tasks ended
gather_results_as_completed(task_list, completion_order) ==
    [k \in DOMAIN completion_order |-> task_list[completion_order[k]].result.value]

\* asyncio.gather(*tasks): the results in the order of the tasks
gather_results(task_list, completion_order) ==
    [i \in DOMAIN task_list |-> task_list[i].result.value]

SERVICE_UNAVAILABLE == "The FBI UCR prediction service is temporarily unavailable."

\* ucr_compare giving up as soon as one offense failed
ucr_compare_finish_any_failed(joined, months_ahead, metric, state) ==
    IF \E i \in DOMAIN joined : ~IsNone(joined[i][4])
    THEN Raise(ToolError(SERVICE_UNAVAILABLE, <<>>))
    ELSE Return(format_comparison_output(joined, months_ahead, metric, state))

\* ucr_compare after the join
ucr_compare_finish(joined, months_ahead, metric, state) ==
    IF \A i \in DOMAIN joined : ~IsNone(joined[i][4])
    THEN Raise(ToolError(SERVICE_UNAVAILABLE, <<>>))
    ELSE Return(format_comparison_output(joined, months_ahead, metric, state))

-----------------------------------------------------------------------------
(* The invocation *)

NoOutcome == [raised |-> FALSE, running |-> TRUE]

Idle ==
    /\ tool = "none"
    /\ pc = "idle"
    /\ args = NoValue
    /\ locals = NoValue
    /\ calls = <<>>
    /\ tasks = <<>>
    /\ finished = <<>>
    /\ gathered = <<>>
    /\ outcome = NoOutcome

Init == Idle

Returned == pc = "done" /\ ~outcome.raised
Raised == pc = "done" /\ outcome.raised
RaisedToolError(message) ==
    Raised /\ outcome.exc.type = "ToolError" /\ outcome.exc.message = message

\* the invocation ends and gives its caller a value or an exception
Finish(result) ==
    /\ pc' = "done"
    /\ outcome' = result

-----------------------------------------------------------------------------
(* Inputs of ucr_compare *)

\* longest list whose entries are drawn freely
MaxListLen == 2

CompareOffenseInputs ==
    { homicide,
      <<" ","M","v","t">>,                                                    \* " Mvt"
      <<"r","o","b","b","e","r","y">>,                                        \* "robbery"
      <<"b","u","r","g","l","a","r","y","_","c","r","i","m","e">>,            \* "burglary_crime"
      <<"m","o","t","o","r","_","v","e","h","i","c","l","e","-","t","h","e","f","t">> }
                                                                  \* "motor_vehicle-theft"

StateInputs == {None, <<" ","t","x">>, <<"Z","Z">>}

CompareOffenseLists ==
    UNION {[1..n -> CompareOffenseInputs] : n \in 0..MaxListLen}
    \cup {[i \in 1..(MAX_OFFENSES + 1) |-> o] : o \in CompareOffenseInputs}

Metrics == {"absolute", "percent_change"}
CompareMonths == {6}

\* what the upstream may answer a call of ucr_compare with
ComparePrediction ==
    [predictions |-> <<[date |-> Date(2025, 1), predicted |-> 105],
                       [date |-> Date(2025, 2), predicted |-> 111]>>,
     metadata |-> [model_type |-> "ARIMA", mape |-> 5, training_end |-> Date(2024, 10)]]
CompareHistory == [data |-> <<[date |-> Date(2024, 10), actual |-> 100]>>]

\* (bodies that do not parse are left to the single-call tools)
CompareAnswers(call) ==
    { Response(200, IF call.method = "POST" THEN ComparePrediction ELSE CompareHistory),
      Response(503, NotJson),
      TimedOut,
      ConnectFailed }

-----------------------------------------------------------------------------
(* ucr_compare: actions *)

\* the call of ucr_compare up to its first suspension: the checks, then the
\* N tasks, each issuing its two calls
ucr_compare_call(offenses, months_ahead, metric, state) ==
    /\ pc = "idle"
    /\ tool' = "ucr_compare"
    /\ args' = [offenses |-> offenses, months_ahead |-> months_ahead,
                metric |-> metric, state |-> state]
    /\ LET checked == ucr_compare_validate(offenses, state)
       IN  IF checked.raised
           THEN /\ Finish(checked)
                /\ UNCHANGED <<locals, calls, tasks, finished, gathered>>
           ELSE /\ pc' = "gather"
                /\ locals' = checked.value
                /\ calls' = compare_calls(checked.value.offenses, months_ahead,
                                          checked.value.state)
                /\ tasks' = [i \in DOMAIN checked.value.offenses |->
                                [offense |-> checked.value.offenses[i],
                                 prediction |-> NoValue, history |-> NoValue,
                                 done |-> FALSE, result |-> NoOutcome]]
                /\ UNCHANGED <<finished, gathered, outcome>>

\* the task reporting a failure together with the payload its other call gave
task_after_answer_keeps_sibling(task, is_prediction, answer) ==
    LET got == IF is_prediction THEN fetch_prediction(answer) ELSE fetch_history(answer)
        prediction == IF is_prediction THEN got.value ELSE task.prediction
        history == IF is_prediction THEN task.history ELSE got.value
        caught == fetch_offense_data_except(task.offense, got.exc)
    IN  IF got.raised
        THEN [offense |-> task.offense, prediction |-> NoValue, history |-> NoValue,
              done |-> TRUE,
              result |-> IF caught.raised THEN caught
                         ELSE Return(<<task.offense, task.prediction, task.history,
                                       caught.value[4]>>)]
        ELSE IF ~IsNone(prediction) /\ ~IsNone(history)
        THEN [offense |-> task.offense, prediction |-> NoValue, history |-> NoValue,
              done |-> TRUE,
              result |-> fetch_offense_data_return(task.offense, prediction, history)]
        ELSE [task EXCEPT !.prediction = prediction, !.history = history]

\* fetch_offense_data of list position i after one of its two calls is
\* answered: the task as it is then
task_after_answer(task, is_prediction, answer) ==
    LET got == IF is_prediction THEN fetch_prediction(answer) ELSE fetch_history(answer)
        prediction == IF is_prediction THEN got.value ELSE task.prediction
        history == IF is_prediction THEN task.history ELSE got.value
    IN  IF got.raised
        THEN \* the inner gather raises at once and what it had collected is lost
             [offense |-> task.offense, prediction |-> NoValue, history |-> NoValue,
              done |-> TRUE, result |-> fetch_offense_data_except(task.offense, got.exc)]
        ELSE IF ~IsNone(prediction) /\ ~IsNone(history)
        THEN [offense |-> task.offense, prediction |-> NoValue, history |-> NoValue,
              done |-> TRUE,
              result |-> fetch_offense_data_return(task.offense, prediction, history)]
        ELSE [task EXCEPT !.prediction = prediction, !.history = history]

\* the upstream answers call c; the task that awaits it goes on.  The task
\* consumes the answer: the call keeps only that it is no longer in flight.
\* When the last task ends, the outer gather is over and ucr_compare goes on
\* to its end; a task that raises ends the outer gather at once.
ucr_compare_answer(c, answer) ==
    /\ tool = "ucr_compare" /\ pc = "gather"
    /\ c \in DOMAIN calls
    /\ calls[c].answer = Pending
    /\ ~tasks[(c + 1) \div 2].done
    /\ calls' = [calls EXCEPT ![c].answer = Answered]
    /\ LET i == (c + 1) \div 2
           after == task_after_answer(tasks[i], c % 2 = 1, answer)
       IN  /\ tasks' = [tasks EXCEPT ![i] = after]
           /\ finished' = IF after.done THEN Append(finished, i) ELSE finished
           /\ IF after.done /\ after.result.raised
              THEN Finish(after.result) /\ UNCHANGED gathered
              ELSE IF \A j \in DOMAIN tasks' : tasks'[j].done
              THEN /\ gathered' = gather_results(tasks', finished')
                   /\ Finish(ucr_compare_finish(gathered', args.months_ahead, args.metric,
                                                locals.state))
              ELSE UNCHANGED <<pc, gathered, outcome>>
    /\ UNCHANGED <<tool, args, locals>>

\* call c ends after the inner gather of its task has raised: the sibling
\* was not cancelled, and nothing awaits its answer, whatever it is
ucr_compare_late_answer(c) ==
    /\ tool = "ucr_compare" /\ pc = "gather"
    /\ c \in DOMAIN calls
    /\ calls[c].answer = Pending
    /\ tasks[(c + 1) \div 2].done
    /\ calls' = [calls EXCEPT ![c].answer = Answered]
    /\ UNCHANGED <<tool, pc, args, locals, tasks, finished, gathered, outcome>>

-----------------------------------------------------------------------------
(* ucr_forecast: helpers *)

MIN_MONTHS == 1
MAX_MONTHS == 12
TREND_THRESHOLD == 5
RECENT_HISTORY == 3
FORECAST_HISTORY_MONTHS == 6

SUMMARY == <<"s","u","m","m","a","r","y">>
DETAILED == <<"d","e","t","a","i","l","e","d">>

MONTH_ABBR == <<"Jan", "Feb", "Mar", "Apr", "May", "Jun",
                "Jul", "Aug", "Sep", "Oct", "Nov", "Dec">>

\* A year-month is a record [year, month]; 'Jan 2025' for 2025-01
format_month(date) == [mon |-> MONTH_ABBR[date.month], year |-> date.year]

\* determine_trend with the two thresholds included in the labels
determine_trend_inclusive(predictions) ==
    IF Len(predictions) < 2 THEN <<"Stable", Ratio(0, 1)>>
    ELSE LET first_value == JsonGet(predictions[1], "predicted", 0)
             last_value == JsonGet(predictions[Len(predictions)], "predicted", 0)
         IN  IF first_value = 0 THEN <<"Stable", Ratio(0, 1)>>
             ELSE LET percent_change ==
                          Ratio((last_value - first_value) * 100, first_value)
                  IN  IF ~PctLess(percent_change, TREND_THRESHOLD)
                      THEN <<"Increasing", percent_change>>
                      ELSE IF ~PctGreater(percent_change, -TREND_THRESHOLD)
                      THEN <<"Decreasing", percent_change>>
                      ELSE <<"Stable", percent_change>>

determine_trend(predictions) ==
    IF Len(predictions) < 2 THEN <<"Stable", Ratio(0, 1)>>
    ELSE LET first_value == JsonGet(predictions[1], "predicted", 0)
             last_value == JsonGet(predictions[Len(predictions)], "predicted", 0)
         IN  IF first_value = 0 THEN <<"Stable", Ratio(0, 1)>>
             ELSE LET percent_change ==
                          Ratio((last_value - first_value) * 100, first_value)
                  IN  IF PctGreater(percent_change, TREND_THRESHOLD)
                      THEN <<"Increasing", percent_change>>
                      ELSE IF PctLess(percent_change, -TREND_THRESHOLD)
                      THEN <<"Decreasing", percent_change>>
                      ELSE <<"Stable", percent_change>>

\* the last n elements of a list: list[-n:]
LastN(list, n) ==
    IF Len(list) <= n THEN list ELSE SubSeq(list, Len(list) - n + 1, Len(list))

\* accuracy as the summary footer reports it
forecast_accuracy(model_info) ==
    LET mape == JsonGet(model_info, "mape", JsonGet(model_info, "error_rate", 0))
    IN  IF mape # 0 THEN 100 - mape ELSE JsonGet(model_info, "accuracy", 0)

\* history is a list of points, or NoValue
forecast_format_summary(offense, months_ahead, predictions, model_info, history, state) ==
    LET location == IF state # None /\ state # <<>>
                    THEN Get(STATE_NAMES, state, state) ELSE "National"
        recent == IF IsNoList(history) THEN <<>> ELSE LastN(history, RECENT_HISTORY)
        trend == determine_trend(predictions)
    IN  << [line |-> "header", offense |-> title(replace(offense, "-", " ")),
            location |-> location, months_ahead |-> months_ahead],
           BlankLine >>
        \o (IF Len(recent) > 0
            THEN <<[line |-> "Recent History:"]>>
                 \o [k \in DOMAIN recent |->
                        [line |-> "history",
                         month |-> format_month(recent[k].date),
                         incidents |-> JsonGet(recent[k], "actual",
                                          JsonGet(recent[k], "incidents",
                                                  JsonGet(recent[k], "value", 0)))]]
                 \o <<BlankLine>>
            ELSE <<>>)
        \o <<[line |-> "Predicted Incidents:"]>>
        \o [k \in DOMAIN predictions |->
               [line |-> "prediction",
                month |-> format_month(predictions[k].date),
                predicted |-> JsonGet(predictions[k], "predicted", 0),
                lower |-> JsonGet(predictions[k], "lower",
                                  JsonGet(predictions[k], "lower_bound", 0)),
                upper |-> JsonGet(predictions[k], "upper",
                                  JsonGet(predictions[k], "upper_bound", 0))]]
        \o << BlankLine,
              [line |-> "trend", direction |-> trend[1], percent_change |-> trend[2]],
              [line |-> "model",
               model_type |-> JsonGet(model_info, "model_type",
                                      JsonGet(model_info, "model", "Unknown")),
               accuracy |-> forecast_accuracy(model_info),
               training_end |-> JsonGet(model_info, "training_end",
                                        JsonGet(model_info, "data_through", NoValue))] >>

\* the object that format_detailed serializes
forecast_format_detailed(offense, months_ahead, predictions, model_info, history, state, explanation) ==
    LET trend == determine_trend(predictions)
        base == [offense |-> offense,
                 location |-> IF state # None /\ state # <<>> THEN state
                              ELSE NATIONAL,
                 months_forecasted |-> months_ahead,
                 predictions |-> predictions,
                 trend |-> [direction |-> trend[1], percent_change |-> trend[2]],
                 model |-> model_info]
        keys == DOMAIN base
                \cup (IF ~IsNoList(history) /\ Len(history) > 0 THEN {"history"} ELSE {})
                \cup (IF ~IsNone(explanation) /\ DOMAIN explanation # {}
                      THEN {"explanation"} ELSE {})
    IN  [k \in keys |-> IF k = "history" THEN history
                        ELSE IF k = "explanation" THEN explanation ELSE base[k]]

\* the checks without the one on months_ahead
ucr_forecast_validate_no_months_check(offense, months_ahead, format, state) ==
    IF forecast_normalize_offense(offense).raised THEN forecast_normalize_offense(offense)
    ELSE IF forecast_normalize_state(state).raised THEN forecast_normalize_state(state)
    ELSE IF strip(lower(format)) \notin {SUMMARY, DETAILED}
    THEN Raise(ToolError("Invalid format", format))
    ELSE Return([offense |-> forecast_normalize_offense(offense).value,
                 state |-> forecast_normalize_state(state).value,
                 format_lower |-> strip(lower(format))])

\* the checks with the format compared as it was given
ucr_forecast_validate_format_exact(offense, months_ahead, format, state) ==
    IF forecast_normalize_offense(offense).raised THEN forecast_normalize_offense(offense)
    ELSE IF forecast_normalize_state(state).raised THEN forecast_normalize_state(state)
    ELSE IF ~(MIN_MONTHS <= months_ahead /\ months_ahead <= MAX_MONTHS)
    THEN Raise(ToolError("months_ahead must be between 1 and 12", months_ahead))
    ELSE IF format \notin {SUMMARY, DETAILED}
    THEN Raise(ToolError("Invalid format", format))
    ELSE Return([offense |-> forecast_normalize_offense(offense).value,
                 state |-> forecast_normalize_state(state).value,
                 format_lower |-> format])

\* the checks of ucr_forecast before any call
ucr_forecast_validate(offense, months_ahead, format, state) ==
    IF forecast_normalize_offense(offense).raised THEN forecast_normalize_offense(offense)
    ELSE IF forecast_normalize_state(state).raised THEN forecast_normalize_state(state)
    ELSE IF ~(MIN_MONTHS <= months_ahead /\ months_ahead <= MAX_MONTHS)
    THEN Raise(ToolError("months_ahead must be between 1 and 12", months_ahead))
    ELSE IF strip(lower(format)) \notin {SUMMARY, DETAILED}
    THEN Raise(ToolError("Invalid format", format))
    ELSE Return([offense |-> forecast_normalize_offense(offense).value,
                 state |-> forecast_normalize_state(state).value,
                 format_lower |-> strip(lower(format))])

\* the except clauses around the prediction call, in the order the code lists them
ucr_forecast_predict_except(exc, normalized_offense, normalized_state) ==
    IF isinstance(exc, "TimeoutException")
    THEN Raise(ToolError("The FBI UCR prediction service is not responding.", <<>>))
    ELSE IF isinstance(exc, "HTTPStatusError")
    THEN IF exc.status_code = 404
         THEN Raise(ToolError("No prediction model found", normalized_offense))
         ELSE IF exc.status_code >= 500
         THEN Raise(ToolError("The FBI UCR prediction service is experiencing issues.",
                              <<>>))
         ELSE Raise(ToolError("Failed to get predictions", exc.status_code))
    ELSE IF isinstance(exc, "RequestError")
    THEN Raise(ToolError("Could not connect to the FBI UCR prediction service",
                         exc.message))
    ELSE Raise(exc)

\* an except clause around the history call that names HTTPStatusError alone
ucr_forecast_history_data_status_only(got) ==
    IF ~got.raised THEN got
    ELSE IF isinstance(got.exc, "HTTPStatusError") THEN Return(NoValue)
    ELSE got

\* the except clause around the history call: the data, None, or an exception
\* the clause does not catch
ucr_forecast_history_data(got) ==
    IF ~got.raised THEN got
    ELSE IF isinstance(got.exc, "HTTPStatusError") \/ isinstance(got.exc, "RequestError")
    THEN Return(NoValue)
    ELSE got

\* ucr_forecast from the extraction of the response fields to its return
ucr_forecast_output(predict_data, history_data, include_history, normalized, months_ahead) ==
    LET predictions == JsonGet(predict_data, "predictions",
                               JsonGet(predict_data, "forecast", <<>>))
        model_info == JsonGet(predict_data, "metadata",
                              JsonGet(predict_data, "model",
                                      JsonGet(predict_data, "model_info", EmptyDict)))
        explanation == JsonGet(predict_data, "explanation", NoValue)
        history_list == IF IsNone(history_data) THEN NoList
                        ELSE JsonGet(history_data, "history",
                                     JsonGet(history_data, "data", <<>>))
        history == IF include_history THEN history_list ELSE NoList
    IN  IF normalized.format_lower = SUMMARY
        THEN [format |-> "summary",
              lines |-> forecast_format_summary(normalized.offense, months_ahead,
                                                predictions, model_info, history,
                                                normalized.state)]
        ELSE [format |-> "detailed",
              json |-> forecast_format_detailed(normalized.offense, months_ahead,
                                                predictions, model_info, history,
                                                normalized.state, explanation)]

-----------------------------------------------------------------------------
(* Inputs of ucr_forecast *)

ForecastOffenseInputs ==
    { homicide,
      <<"C","a","r","-","T","h","e","f","t"," ">>,     \* "Car-Theft "
      <<"r","o","b","b","e","r","y">> }                \* "robbery"

ForecastMonths == {0, 1, 12, 13}

FormatInputs ==
    { SUMMARY,
      <<"S","U","M","M","A","R","Y"," ">>,             \* "SUMMARY "
      <<" ","D","e","t","a","i","l","e","d">>,         \* " Detailed"
      <<"j","s","o","n">> }                            \* "json"

ForecastPredictions ==
    { [predictions |-> <<[date |-> Date(2024, 11), predicted |-> 100,
                          lower |-> 90, upper |-> 110],
                         [date |-> Date(2024, 12), predicted |-> 111,
                          lower |-> 95, upper |-> 120]>>,
       metadata |-> [model_type |-> "SARIMA", mape |-> 5,
                     training_end |-> Date(2024, 10)],
       explanation |-> [method |-> "seasonal"]],
      [forecast |-> <<[date |-> Date(2024, 11), predicted |-> 100,
                       lower_bound |-> 90, upper_bound |-> 110]>>,
       model |-> [model |-> "Prophet", mape |-> 0]] }

ForecastHistories ==
    { [history |-> <<[date |-> Date(2024, 7), actual |-> 97],
                     [date |-> Date(2024, 8), actual |-> 98],
                     [date |-> Date(2024, 9), actual |-> 99],
                     [date |-> Date(2024, 10), actual |-> 100]>>],
      [data |-> <<>>] }

\* the statuses the upstream answers with when it does not answer 200
ERROR_STATUSES == {400, 404, 429, 500, 503}

ForecastAnswers(call) ==
    { Response(200, body) :
         body \in IF call.method = "POST" THEN ForecastPredictions ELSE ForecastHistories }
    \cup { Response(200, NotJson) }
    \cup { Response(status, NotJson) : status \in ERROR_STATUSES }
    \cup { TimedOut, ConnectFailed }

-----------------------------------------------------------------------------
(* ucr_forecast: actions *)

\* the call of ucr_forecast up to its first suspension: the checks, then the
\* prediction request
ucr_forecast_call(offense, months_ahead, include_history, format, state) ==
    /\ pc = "idle"
    /\ tool' = "ucr_forecast"
    /\ args' = [offense |-> offense, months_ahead |-> months_ahead,
                include_history |-> include_history, format |-> format, state |-> state]
    /\ LET checked == ucr_forecast_validate(offense, months_ahead, format, state)
       IN  IF checked.raised
           THEN /\ Finish(checked)
                /\ UNCHANGED <<locals, calls>>
           ELSE /\ pc' = "predict"
                /\ locals' = checked.value
                /\ calls' = << NewCall("POST", "/api/v1/predict", checked.value.offense,
                                       WithState([json_months |-> months_ahead],
                                                 checked.value.state)) >>
                /\ UNCHANGED outcome
    /\ UNCHANGED <<tasks, finished, gathered>>

\* the prediction request sent a second time after its first failure
ucr_forecast_predict_answer_retry(answer) ==
    /\ tool = "ucr_forecast" /\ pc = "predict"
    /\ LET got == request_json(answer)
           answered == [calls EXCEPT ![1].answer = answer]
       IN  IF got.raised /\ Len(calls) = 1
           THEN /\ calls' = Append(answered,
                                   NewCall("POST", "/api/v1/predict", locals.offense,
                                           WithState([json_months |-> args.months_ahead],
                                                     locals.state)))
                /\ UNCHANGED <<pc, outcome, locals>>
           ELSE IF got.raised
           THEN /\ Finish(ucr_forecast_predict_except(got.exc, locals.offense,
                                                      locals.state))
                /\ calls' = answered
                /\ UNCHANGED locals
           ELSE /\ Finish(Return(ucr_forecast_output(got.value, NoValue, FALSE, locals,
                                                     args.months_ahead)))
                /\ calls' = answered
                /\ UNCHANGED locals
    /\ UNCHANGED <<tool, args, tasks, finished, gathered>>

\* the history request issued after every prediction that succeeded
ucr_forecast_predict_answer_history_always(answer) ==
    /\ tool = "ucr_forecast" /\ pc = "predict"
    /\ LET got == request_json(answer)
           answered == [calls EXCEPT ![1].answer = answer]
       IN  IF got.raised
           THEN /\ Finish(ucr_forecast_predict_except(got.exc, locals.offense,
                                                      locals.state))
                /\ calls' = answered
                /\ UNCHANGED locals
           ELSE /\ pc' = "history"
                /\ locals' = [k \in DOMAIN locals \cup {"predict_data"} |->
                                 IF k = "predict_data" THEN got.value ELSE locals[k]]
                /\ calls' = Append(answered,
                                   NewCall("GET", "/api/v1/history", locals.offense,
                                           WithState([months |-> FORECAST_HISTORY_MONTHS],
                                                     locals.state)))
                /\ UNCHANGED outcome
    /\ UNCHANGED <<tool, args, tasks, finished, gathered>>

\* the upstream answers the prediction request
ucr_forecast_predict_answer(answer) ==
    /\ tool = "ucr_forecast" /\ pc = "predict"
    /\ LET got == request_json(answer)
           answered == [calls EXCEPT ![1].answer = answer]
       IN  IF got.raised
           THEN /\ Finish(ucr_forecast_predict_except(got.exc, locals.offense,
                                                      locals.state))
                /\ calls' = answered
                /\ UNCHANGED locals
           ELSE IF args.include_history
           THEN /\ pc' = "history"
                /\ locals' = [k \in DOMAIN locals \cup {"predict_data"} |->
                                 IF k = "predict_data" THEN got.value ELSE locals[k]]
                /\ calls' = Append(answered,
                                   NewCall("GET", "/api/v1/history", locals.offense,
                                           WithState([months |-> FORECAST_HISTORY_MONTHS],
                                                     locals.state)))
                /\ UNCHANGED outcome
           ELSE /\ Finish(Return(ucr_forecast_output(got.value, NoValue, FALSE, locals,
                                                     args.months_ahead)))
                /\ calls' = answered
                /\ UNCHANGED locals
    /\ UNCHANGED <<tool, args, tasks, finished, gathered>>

\* the upstream answers the history request
ucr_forecast_history_answer(answer) ==
    /\ tool = "ucr_forecast" /\ pc = "history"
    /\ calls' = [calls EXCEPT ![2].answer = answer]
    /\ LET history_data == ucr_forecast_history_data(request_json(answer))
       IN  IF history_data.raised
           THEN Finish(history_data)
           ELSE Finish(Return(ucr_forecast_output(locals.predict_data, history_data.value,
                                                  TRUE, locals, args.months_ahead)))
    /\ UNCHANGED <<tool, args, locals, tasks, finished, gathered>>

-----------------------------------------------------------------------------
(* ucr_history: helpers *)

EARLIEST_YEAR == 2015
HISTORY_TREND_THRESHOLD == 5

DIGITS == <<"0","1","2","3","4","5","6","7","8","9">>
\* the characters of a date or of an offense name, in code point order
CODE_POINT_ORDER == <<" ", "-">> \o DIGITS \o UPPERCASE \o <<"_">> \o LOWERCASE
ord == [c \in {CODE_POINT_ORDER[i] : i \in DOMAIN CODE_POINT_ORDER} |->
           CHOOSE i \in DOMAIN CODE_POINT_ORDER : CODE_POINT_ORDER[i] = c]

\* a < b for two strings
StrLess(a, b) ==
    \E k \in 1..(Len(a) + 1) :
        /\ k <= Len(b)
        /\ \A j \in 1..(k - 1) : a[j] = b[j]
        /\ (k = Len(a) + 1 \/ ord[a[k]] < ord[b[k]])

\* s.split(sep) for a separator of one character
split(s, sep) ==
    LET cuts == Ascending({i \in 1..Len(s) : s[i] = sep} \cup {0, Len(s) + 1})
    IN  [k \in 1..(Len(cuts) - 1) |-> SubSeq(s, cuts[k] + 1, cuts[k + 1] - 1)]

\* int(s) for a string of digits
RECURSIVE int(_)
int(s) ==
    IF Len(s) = 0 THEN 0
    ELSE 10 * int(SubSeq(s, 1, Len(s) - 1))
         + (CHOOSE d \in 0..9 : DIGITS[d + 1] = s[Len(s)])

\* 'MM-YYYY' to 'YYYY-MM'
parse_api_date(api_date) ==
    IF \E i \in DOMAIN api_date : api_date[i] = "-"
    THEN LET parts == split(api_date, "-")
         IN  IF Len(parts[1]) = 2 THEN parts[2] \o <<"-">> \o parts[1] ELSE api_date
    ELSE api_date

\* the records left in the order the response lists them
sort_by_date_unsorted(records) == records

\* list.sort(key=...) on the dates: stable, ascending
sort_by_date(records) ==
    LET before(i, j) == \/ StrLess(records[i].date, records[j].date)
                        \/ (records[i].date = records[j].date /\ i < j)
        rank(i) == Cardinality({j \in DOMAIN records : before(j, i)}) + 1
    IN  [k \in DOMAIN records |-> records[CHOOSE i \in DOMAIN records : rank(i) = k]]

calculate_trend(data) ==
    IF Len(data) < 2 THEN <<"Stable", Ratio(0, 1)>>
    ELSE LET first_value == JsonGet(data[1], "actual", 0)
             last_value == JsonGet(data[Len(data)], "actual", 0)
         IN  IF first_value = 0 THEN <<"Stable", Ratio(0, 1)>>
             ELSE LET percent_change ==
                          Ratio((last_value - first_value) * 100, first_value)
                  IN  IF PctGreater(percent_change, HISTORY_TREND_THRESHOLD)
                      THEN <<"Increasing", percent_change>>
                      ELSE IF PctLess(percent_change, -HISTORY_TREND_THRESHOLD)
                      THEN <<"Decreasing", percent_change>>
                      ELSE <<"Stable", percent_change>>

RECURSIVE SumActual(_, _)
SumActual(data, positions) ==
    IF positions = {} THEN 0
    ELSE LET i == CHOOSE i \in positions : TRUE
         IN  JsonGet(data[i], "actual", 0) + SumActual(data, positions \ {i})

\* calculate_yearly_totals keeping, for each year, its last point only
calculate_yearly_totals_last_point(data) ==
    LET date(i) == JsonGet(data[i], "date", <<>>)
        dated == {i \in DOMAIN data :
                     /\ Len(date(i)) > 0
                     /\ \E k \in DOMAIN date(i) : date(i)[k] = "-"}
        year(i) == int(split(date(i), "-")[1])
    IN  { <<y, JsonGet(data[SetMax({i \in dated : year(i) = y})], "actual", 0)>> :
            y \in {year(i) : i \in dated} }

\* the dict year -> total, as a set of pairs
calculate_yearly_totals(data) ==
    LET date(i) == JsonGet(data[i], "date", <<>>)
        dated == {i \in DOMAIN data :
                     /\ Len(date(i)) > 0
                     /\ \E k \in DOMAIN date(i) : date(i)[k] = "-"}
        year(i) == int(split(date(i), "-")[1])
    IN  { <<y, SumActual(data, {i \in dated : year(i) = y})>> :
            y \in {year(i) : i \in dated} }

history_format_summary(offense, location, data, from_year, to_year) ==
    LET location_display == IF location # NATIONAL
                            THEN Get(STATE_NAMES, location, "United States")
                            ELSE "United States"
        yearly_totals == calculate_yearly_totals(data)
        years == Ascending(Keys(yearly_totals))
        trend == calculate_trend(data)
        head == << [line |-> "header", offense |-> title(replace(offense, "-", " ")),
                    location |-> location_display],
                   [line |-> "period", from_year |-> from_year, to_year |-> to_year],
                   BlankLine >>
    IN  IF Len(data) = 0
        THEN head \o <<[line |-> "No data available for the requested period."]>>
        ELSE head
             \o <<[line |-> "Annual Totals:"]>>
             \o [k \in DOMAIN years |->
                    [line |-> "year", year |-> years[k],
                     incidents |-> Lookup(yearly_totals, years[k])]]
             \o << BlankLine,
                   [line |-> "trend", direction |-> trend[1], percent_change |-> trend[2]],
                   BlankLine,
                   [line |-> "note"],
                   [line |-> "total_months", total |-> Len(data)] >>

\* the object that format_detailed serializes
history_format_detailed(offense, location, data, from_year, to_year) ==
    LET trend == calculate_trend(data)
    IN  [offense |-> offense, location |-> location,
         from_year |-> from_year, to_year |-> to_year,
         total_months |-> Len(data),
         yearly_totals |-> calculate_yearly_totals(data),
         monthly_data |-> data,
         trend |-> [direction |-> trend[1], percent_change |-> trend[2]]]

\* the records fetch_national_history / fetch_state_history build from the
\* body under the key offenses_key
history_records(data, offenses_key) ==
    IF data # EmptyDict /\ "offenses" \in DOMAIN data
    THEN LET actuals == JsonGet(JsonGet(data.offenses, "actuals", EmptyDict),
                                offenses_key, <<>>)
             rates == JsonGet(JsonGet(data.offenses, "rates", EmptyDict),
                              offenses_key, <<>>)
             rate_of(date_str) ==
                 IF \E k \in DOMAIN rates : rates[k][1] = date_str
                 THEN rates[CHOOSE k \in DOMAIN rates : rates[k][1] = date_str][2]
                 ELSE NoValue
         IN  sort_by_date([k \in DOMAIN actuals |->
                              [date |-> parse_api_date(actuals[k][1]),
                               actual |-> IF IsNone(actuals[k][2]) THEN 0
                                          ELSE actuals[k][2].value,
                               rate |-> rate_of(actuals[k][1])]])
    ELSE <<>>

fetch_national_history(answer) ==
    LET got == request_json(answer)
    IN  IF got.raised THEN got
        ELSE Return(history_records(got.value, "United States Offenses"))

fetch_state_history(state, answer) ==
    LET got == request_json(answer)
    IN  IF got.raised THEN got
        ELSE Return(history_records(got.value,
                                    Get(STATE_NAMES, state, state) \o " Offenses"))

\* the checks with the one of the range ahead of the one of the earliest year
ucr_history_validate_range_first(offense, from_year, to_year, state, format, now_year) ==
    IF history_normalize_offense(offense).raised THEN history_normalize_offense(offense)
    ELSE IF history_normalize_state(state).raised THEN history_normalize_state(state)
    ELSE LET end_year == IF IsNone(to_year) THEN now_year ELSE to_year.value
         IN  IF from_year > end_year
             THEN Raise(ToolError("from_year must be less than or equal to to_year",
                                  <<from_year, end_year>>))
             ELSE IF from_year < EARLIEST_YEAR
             THEN Raise(ToolError("from_year must be 2015 or later", from_year))
             ELSE IF strip(lower(format)) \notin {SUMMARY, DETAILED}
             THEN Raise(ToolError("Invalid format", format))
             ELSE Return([offense |-> history_normalize_offense(offense).value,
                          state |-> history_normalize_state(state).value,
                          to_year |-> end_year,
                          format_lower |-> strip(lower(format))])

\* the checks of ucr_history before any call; now_year is the year the clock shows
ucr_history_validate(offense, from_year, to_year, state, format, now_year) ==
    IF history_normalize_offense(offense).raised THEN history_normalize_offense(offense)
    ELSE IF history_normalize_state(state).raised THEN history_normalize_state(state)
    ELSE LET end_year == IF IsNone(to_year) THEN now_year ELSE to_year.value
         IN  IF from_year < EARLIEST_YEAR
             THEN Raise(ToolError("from_year must be 2015 or later", from_year))
             ELSE IF from_year > end_year
             THEN Raise(ToolError("from_year must be less than or equal to to_year",
                                  <<from_year, end_year>>))
             ELSE IF strip(lower(format)) \notin {SUMMARY, DETAILED}
             THEN Raise(ToolError("Invalid format", format))
             ELSE Return([offense |-> history_normalize_offense(offense).value,
                          state |-> history_normalize_state(state).value,
                          to_year |-> end_year,
                          format_lower |-> strip(lower(format))])

\* the except clauses with the one for RequestError listed first
ucr_history_except_connect_first(exc, normalized_offense) ==
    IF isinstance(exc, "RequestError")
    THEN Raise(ToolError("Could not connect to the FBI Crime Data Explorer API",
                         exc.message))
    ELSE IF isinstance(exc, "TimeoutException")
    THEN Raise(ToolError("The FBI Crime Data Explorer API is not responding.", <<>>))
    ELSE IF isinstance(exc, "HTTPStatusError")
    THEN IF exc.status_code = 404
         THEN Raise(ToolError("No data found", normalized_offense))
         ELSE IF exc.status_code >= 500
         THEN Raise(ToolError("The FBI Crime Data Explorer API is experiencing issues.",
                              <<>>))
         ELSE Raise(ToolError("FBI API request failed", exc.status_code))
    ELSE Raise(exc)

\* the except clauses around the fetch, in the order the code lists them
ucr_history_except(exc, normalized_offense) ==
    IF isinstance(exc, "TimeoutException")
    THEN Raise(ToolError("The FBI Crime Data Explorer API is not responding.", <<>>))
    ELSE IF isinstance(exc, "HTTPStatusError")
    THEN IF exc.status_code = 404
         THEN Raise(ToolError("No data found", normalized_offense))
         ELSE IF exc.status_code >= 500
         THEN Raise(ToolError("The FBI Crime Data Explorer API is experiencing issues.",
                              <<>>))
         ELSE Raise(ToolError("FBI API request failed", exc.status_code))
    ELSE IF isinstance(exc, "RequestError")
    THEN Raise(ToolError("Could not connect to the FBI Crime Data Explorer API",
                         exc.message))
    ELSE Raise(exc)

\* ucr_history from the answer of its call to its end
ucr_history_finish(answer, normalized, from_year) ==
    LET has_state == normalized.state # None /\ normalized.state # <<>>
        fetched == IF has_state THEN fetch_state_history(normalized.state, answer)
                   ELSE fetch_national_history(answer)
        location == IF has_state THEN normalized.state ELSE NATIONAL
    IN  IF fetched.raised THEN ucr_history_except(fetched.exc, normalized.offense)
        ELSE IF normalized.format_lower = SUMMARY
        THEN Return([format |-> "summary",
                     lines |-> history_format_summary(normalized.offense, location,
                                                      fetched.value, from_year,
                                                      normalized.to_year)])
        ELSE Return([format |-> "detailed",
                     json |-> history_format_detailed(normalized.offense, location,
                                                      fetched.value, from_year,
                                                      normalized.to_year)])

-----------------------------------------------------------------------------
(* Inputs of ucr_history *)

HistoryOffenseInputs ==
    { homicide,
      <<" ","M","V","T">>,                             \* " MVT"
      <<"r","o","b","b","e","r","y">> }                \* "robbery"

FromYears == {2014, 2020, 2027}
ToYears == {NoValue, Number(2010), Number(2019), Number(2021)}
ClockYears == {2026}

ApiDate(mm, yyyy) == mm \o <<"-">> \o yyyy
Y2020 == <<"2","0","2","0">>
Y2021 == <<"2","0","2","1">>
M01 == <<"0","1">>
M02 == <<"0","2">>

\* the months of a body, in the order the body lists them
HistoryMonths ==
    << <<ApiDate(M02, Y2020), Number(10)>>,
       <<ApiDate(M01, Y2021), Number(30)>>,
       <<ApiDate(M01, Y2020), Number(20)>>,
       <<ApiDate(M02, Y2021), NoValue>> >>
HistoryRates == << <<ApiDate(M01, Y2020), Number(3)>> >>

HistoryBodies ==
    { [offenses |->
          [actuals |-> [k \in {"United States Offenses", "Texas Offenses"} |-> HistoryMonths],
           rates |-> [k \in {"United States Offenses", "Texas Offenses"} |-> HistoryRates]]],
      [offenses |-> [actuals |-> EmptyDict]],
      EmptyDict }

HistoryAnswers ==
    { Response(200, body) : body \in HistoryBodies }
    \cup { Response(200, NotJson) }
    \cup { Response(status, NotJson) : status \in ERROR_STATUSES }
    \cup { TimedOut, ConnectFailed }

-----------------------------------------------------------------------------
(* ucr_history: actions *)

\* the call of ucr_history up to its suspension: the checks, then the request
ucr_history_call(offense, from_year, to_year, state, format, now_year) ==
    /\ pc = "idle"
    /\ tool' = "ucr_history"
    /\ args' = [offense |-> offense, from_year |-> from_year, to_year |-> to_year,
                state |-> state, format |-> format]
    /\ LET checked == ucr_history_validate(offense, from_year, to_year, state, format,
                                           now_year)
       IN  IF checked.raised
           THEN /\ Finish(checked)
                /\ UNCHANGED <<locals, calls>>
           ELSE /\ pc' = "fetch"
                /\ locals' = checked.value
                /\ calls' = << NewCall("GET",
                                       IF checked.value.state # None
                                       THEN "/summarized/state" ELSE "/summarized/national",
                                       checked.value.offense,
                                       WithState([from |-> <<1, from_year>>,
                                                  to |-> <<12, checked.value.to_year>>],
                                                 checked.value.state)) >>
                /\ UNCHANGED outcome
    /\ UNCHANGED <<tasks, finished, gathered>>

\* the upstream answers the request
ucr_history_answer(answer) ==
    /\ tool = "ucr_history" /\ pc = "fetch"
    /\ calls' = [calls EXCEPT ![1].answer = answer]
    /\ Finish(ucr_history_finish(answer, locals, args.from_year))
    /\ UNCHANGED <<tool, args, locals, tasks, finished, gathered>>

-----------------------------------------------------------------------------
(* ucr_info: helpers *)

OK == 200

OFFENSE_DESCRIPTIONS ==
    { << violent_crime, "All violent crimes combined (murder, rape, robbery, assault)" >>,
      << property_crime, "All property crimes combined (burglary, theft, vehicle theft)" >>,
      << homicide, "Murder and non-negligent manslaughter" >>,
      << burglary, "Unlawful entry to commit felony" >>,
      << motor_vehicle_theft, "Theft or attempted theft of motor vehicles" >> }

\* the full_description of each entry; every entry has a why_model text
OFFENSE_DETAILS ==
    { << violent_crime, "All violent crimes combined including murder, rape, robbery, and aggravated assault" >>,
      << property_crime, "All property crimes combined including burglary, larceny-theft, and motor vehicle theft" >>,
      << homicide, "Murder and non-negligent manslaughter" >>,
      << burglary, "Unlawful entry of a structure to commit a felony or theft" >>,
      << motor_vehicle_theft, "Theft or attempted theft of motor vehicles" >> }

MONTH_NAMES == <<"January", "February", "March", "April", "May", "June",
                 "July", "August", "September", "October", "November", "December">>

UNKNOWN == <<"u","n","k","n","o","w","n">>

\* 'December 2024' for 2024-12; a value that is not a date is returned as it is
info_format_month(date) ==
    IF "month" \in DOMAIN date /\ date.month \in 1..12
    THEN [month_name |-> MONTH_NAMES[date.month], year |-> date.year]
    ELSE date

info_format_model_type(model_info) ==
    LET model_type == JsonGet(model_info, "model_type", "Unknown")
        params == JsonGet(model_info, "parameters", EmptyDict)
    IN  IF "seasonal_order" \in DOMAIN params /\ Len(params.seasonal_order) > 0
        THEN model_type \o " (seasonal)" ELSE model_type

\* the lines of one entry of the listing
info_model_entry(idx, model) ==
    LET offense == JsonGet(model, "offense", UNKNOWN)
        mape == JsonGet(model, "mape", 0)
    IN  << [line |-> "entry", idx |-> idx, offense |-> offense],
           [line |-> "description",
            text |-> Get(OFFENSE_DESCRIPTIONS, offense,
                         JsonGet(model, "description", "No description available"))],
           [line |-> "model", model_type |-> info_format_model_type(model),
            accuracy |-> 100 - mape, mape |-> mape],
           [line |-> "training",
            through |-> info_format_month(JsonGet(model, "training_end",
                                                  [text |-> "Unknown"]))],
           BlankLine >>

RECURSIVE info_model_entries(_, _)
info_model_entries(models, idx) ==
    IF idx > Len(models) THEN <<>>
    ELSE info_model_entry(idx, models[idx]) \o info_model_entries(models, idx + 1)

\* the listing with every entry of the catalog, whatever its location
info_format_all_models_unfiltered(models, state) ==
    LET has_state == state # None /\ state # <<>>
    IN  << IF has_state
           THEN [line |-> "title", location |-> Get(STATE_NAMES, state, state)]
           ELSE [line |-> "title"],
           BlankLine, [line |-> "Available Models:"], BlankLine >>
        \o info_model_entries(models, 1)
        \o <<[line |-> "source"]>>
        \o (IF has_state
            THEN <<[line |-> "scope", location |-> Get(STATE_NAMES, state, state)]>>
            ELSE <<[line |-> "scope", location |-> "National level"],
                   [line |-> "state_support"]>>)
        \o <<[line |-> "horizon"]>>

info_format_all_models(models, state) ==
    LET has_state == state # None /\ state # <<>>
        wanted == IF has_state THEN state ELSE NATIONAL
        filtered_models ==
            SelectSeq(models, LAMBDA m : "location" \in DOMAIN m /\ m.location = wanted)
    IN  << IF has_state
           THEN [line |-> "title", location |-> Get(STATE_NAMES, state, state)]
           ELSE [line |-> "title"],
           BlankLine, [line |-> "Available Models:"], BlankLine >>
        \o info_model_entries(filtered_models, 1)
        \o <<[line |-> "source"]>>
        \o (IF has_state
            THEN <<[line |-> "scope", location |-> Get(STATE_NAMES, state, state)]>>
            ELSE <<[line |-> "scope", location |-> "National level"],
                   [line |-> "state_support"]>>)
        \o <<[line |-> "horizon"]>>

info_format_model_details(model) ==
    LET offense == JsonGet(model, "offense", UNKNOWN)
        model_type == JsonGet(model, "model_type", "Unknown")
        params == JsonGet(model, "parameters", EmptyDict)
        mape == JsonGet(model, "mape", 0)
        has_order == "order" \in DOMAIN params /\ Len(params.order) > 0
        has_seasonal == "seasonal_order" \in DOMAIN params /\ Len(params.seasonal_order) > 0
    IN  << [line |-> "title", offense |-> title(replace(offense, "-", " "))],
           BlankLine,
           [line |-> "description",
            text |-> Get(OFFENSE_DETAILS, offense,
                         Get(OFFENSE_DESCRIPTIONS, offense, "No description available"))],
           BlankLine,
           [line |-> "Model Details:"],
           [line |-> "algorithm", model_type |-> model_type] >>
        \o (IF has_order
            THEN <<[line |-> "parameters", order |-> params.order,
                    seasonal_order |-> IF has_seasonal THEN params.seasonal_order
                                       ELSE <<>>]>>
            ELSE <<>>)
        \o << [line |-> "accuracy", accuracy |-> 100 - mape, mape |-> mape],
              [line |-> "training",
               through |-> info_format_month(JsonGet(model, "training_end",
                                                     [text |-> "Unknown"]))] >>
        \o (IF offense \in Keys(OFFENSE_DETAILS)
            THEN <<BlankLine, [line |-> "why", model_type |-> model_type]>>
            ELSE <<>>)
        \o <<BlankLine, [line |-> "use", offense |-> offense]>>

\* the state check of ucr_info, its only check before the call
ucr_info_validate(state) ==
    IF state = None THEN Return(None)
    ELSE IF strip(upper(state)) \notin VALID_STATES
    THEN Raise(ToolError("Invalid state code", state))
    ELSE Return(strip(upper(state)))

\* sorted(set(...)) of strings: ascending in code point order, each once
sorted(strings) ==
    LET rank(s) == Cardinality({t \in strings : StrLess(t, s)}) + 1
    IN  [k \in 1..Cardinality(strings) |-> CHOOSE s \in strings : rank(s) = k]

\* the try block with the search keeping the last entry that matches
ucr_info_try_last_match(answer, offense, normalized_state) ==
    LET sent == client_request(answer)
    IN  IF sent.raised THEN sent
        ELSE IF sent.value.status_code # OK
        THEN Raise(ToolError("Failed to fetch model information: HTTP",
                             sent.value.status_code))
        ELSE LET data == response_json(sent.value)
             IN  IF data.raised THEN data
                 ELSE LET models == JsonGet(data.value, "models", <<>>)
                          offense_lower == strip(lower(offense))
                          found == {i \in DOMAIN models :
                                       lower(JsonGet(models[i], "offense", <<>>))
                                           = offense_lower}
                      IN  IF Len(models) = 0
                          THEN IF normalized_state # None /\ normalized_state # <<>>
                               THEN Raise(ToolError("No models available for state",
                                                    normalized_state))
                               ELSE Raise(ToolError("No models available from the API",
                                                    <<>>))
                          ELSE IF offense = None
                          THEN Return(info_format_all_models(models, normalized_state))
                          ELSE IF found # {}
                          THEN Return(info_format_model_details(models[SetMax(found)]))
                          ELSE Raise(ToolError("Offense not found",
                                 [offense |-> offense,
                                  available |->
                                     sorted({models[i].offense :
                                        i \in {j \in DOMAIN models :
                                                 /\ "offense" \in DOMAIN models[j]
                                                 /\ Len(models[j].offense) > 0}})]))

\* the body of the try block from the response on
ucr_info_try(answer, offense, normalized_state) ==
    LET sent == client_request(answer)
    IN  IF sent.raised THEN sent
        ELSE IF sent.value.status_code # OK
        THEN Raise(ToolError("Failed to fetch model information: HTTP",
                             sent.value.status_code))
        ELSE LET data == response_json(sent.value)
             IN  IF data.raised THEN data
                 ELSE LET models == JsonGet(data.value, "models", <<>>)
                          offense_lower == strip(lower(offense))
                          found == {i \in DOMAIN models :
                                       lower(JsonGet(models[i], "offense", <<>>))
                                           = offense_lower}
                      IN  IF Len(models) = 0
                          THEN IF normalized_state # None /\ normalized_state # <<>>
                               THEN Raise(ToolError("No models available for state",
                                                    normalized_state))
                               ELSE Raise(ToolError("No models available from the API",
                                                    <<>>))
                          ELSE IF offense = None
                          THEN Return(info_format_all_models(models, normalized_state))
                          ELSE IF found # {}
                          THEN Return(info_format_model_details(models[SetMin(found)]))
                          ELSE Raise(ToolError("Offense not found",
                                 [offense |-> offense,
                                  available |->
                                     sorted({models[i].offense :
                                        i \in {j \in DOMAIN models :
                                                 /\ "offense" \in DOMAIN models[j]
                                                 /\ Len(models[j].offense) > 0}})]))

\* the except clauses with the one for Exception ahead of the one for ToolError
ucr_info_except_rewrap(exc) ==
    IF isinstance(exc, "TimeoutException")
    THEN Raise(ToolError("Request timed out while fetching model information", <<>>))
    ELSE IF isinstance(exc, "RequestError")
    THEN Raise(ToolError("Network error while fetching model information", exc.message))
    ELSE Raise(ToolError("Unexpected error", exc.type))

\* the except clauses of ucr_info, in the order the code lists them
ucr_info_except(exc) ==
    IF isinstance(exc, "TimeoutException")
    THEN Raise(ToolError("Request timed out while fetching model information", <<>>))
    ELSE IF isinstance(exc, "RequestError")
    THEN Raise(ToolError("Network error while fetching model information", exc.message))
    ELSE IF isinstance(exc, "ToolError") THEN Raise(exc)
    ELSE Raise(ToolError("Unexpected error", exc.type))

ucr_info_finish(answer, offense, normalized_state) ==
    LET tried == ucr_info_try(answer, offense, normalized_state)
    IN  IF tried.raised THEN ucr_info_except(tried.exc) ELSE tried

-----------------------------------------------------------------------------
(* Inputs of ucr_info *)

InfoOffenseInputs ==
    { None,
      <<" ","H","o","m","i","c","i","d","e">>,         \* " Homicide"
      <<"r","o","b","b","e","r","y">> }                \* "robbery"

InfoModels ==
    << [offense |-> <<"H","o","m","i","c","i","d","e">>, location |-> NATIONAL,
        model_type |-> "Prophet",
        mape |-> 8, training_end |-> Date(2024, 10)],
       [offense |-> burglary, location |-> NATIONAL, model_type |-> "SARIMA",
        parameters |-> [order |-> <<1, 1, 1>>, seasonal_order |-> <<1, 0, 1, 12>>],
        mape |-> 0, training_end |-> Date(2024, 10)],
       [offense |-> homicide, location |-> <<"T","X">>, model_type |-> "ARIMA",
        parameters |-> [order |-> <<2, 1, 0>>],
        mape |-> 12, training_end |-> Date(2024, 9)] >>

\* a catalog whose entries carry no location
UnlocatedModels ==
    << [offense |-> violent_crime, model_type |-> "ARIMA", mape |-> 9,
        training_end |-> Date(2024, 12), parameters |-> [order |-> <<1, 1, 1>>]],
       [offense |-> motor_vehicle_theft, model_type |-> "SARIMA", mape |-> 5,
        training_end |-> Date(2024, 12),
        parameters |-> [order |-> <<1, 1, 1>>, seasonal_order |-> <<1, 1, 1, 12>>]] >>

InfoAnswers ==
    { Response(OK, [models |-> InfoModels]),
      Response(OK, [models |-> UnlocatedModels]),
      Response(OK, [models |-> <<>>]),
      Response(OK, EmptyDict),
      Response(OK, NotJson) }
    \cup { Response(status, NotJson) : status \in ERROR_STATUSES }
    \cup { TimedOut, ConnectFailed }

-----------------------------------------------------------------------------
(* ucr_info: actions *)

\* the call of ucr_info up to its suspension: the state check, then the request
ucr_info_call(offense, state) ==
    /\ pc = "idle"
    /\ tool' = "ucr_info"
    /\ args' = [offense |-> offense, state |-> state]
    /\ LET checked == ucr_info_validate(state)
       IN  IF checked.raised
           THEN /\ Finish(checked)
                /\ UNCHANGED <<locals, calls>>
           ELSE /\ pc' = "models"
                /\ locals' = [state |-> checked.value]
                /\ calls' = << NewCall("GET", "/api/v1/models", None,
                                       WithState(EmptyDict, checked.value)) >>
                /\ UNCHANGED outcome
    /\ UNCHANGED <<tasks, finished, gathered>>

\* the upstream answers the request
ucr_info_answer(answer) ==
    /\ tool = "ucr_info" /\ pc = "models"
    /\ calls' = [calls EXCEPT ![1].answer = answer]
    /\ Finish(ucr_info_finish(answer, args.offense, locals.state))
    /\ UNCHANGED <<tool, args, locals, tasks, finished, gathered>>

-----------------------------------------------------------------------------
(* The specification *)

CompareCall ==
    /\ pc = "idle"
    /\ \E offenses \in CompareOffenseLists, months_ahead \in CompareMonths,
          metric \in Metrics, state \in StateInputs :
           ucr_compare_call(offenses, months_ahead, metric, state)

CompareAnswer ==
    /\ tool = "ucr_compare" /\ pc = "gather"
    /\ \E c \in DOMAIN calls : \E answer \in CompareAnswers(calls[c]) :
           ucr_compare_answer(c, answer)

CompareLateAnswer ==
    /\ tool = "ucr_compare" /\ pc = "gather"
    /\ \E c \in DOMAIN calls : ucr_compare_late_answer(c)

ForecastCall ==
    /\ pc = "idle"
    /\ \E offense \in ForecastOffenseInputs, months_ahead \in ForecastMonths,
          include_history \in BOOLEAN, format \in FormatInputs, state \in StateInputs :
           ucr_forecast_call(offense, months_ahead, include_history, format, state)

ForecastPredictAnswer ==
    /\ tool = "ucr_forecast" /\ pc = "predict"
    /\ \E answer \in ForecastAnswers(calls[1]) : ucr_forecast_predict_answer(answer)

ForecastHistoryAnswer ==
    /\ tool = "ucr_forecast" /\ pc = "history"
    /\ \E answer \in ForecastAnswers(calls[2]) : ucr_forecast_history_answer(answer)
HistoryCall ==
    /\ pc = "idle"
    /\ \E offense \in HistoryOffenseInputs, from_year \in FromYears, to_year \in ToYears,
          state \in StateInputs, format \in FormatInputs, now_year \in ClockYears :
           ucr_history_call(offense, from_year, to_year, state, format, now_year)

HistoryAnswer ==
    /\ tool = "ucr_history" /\ pc = "fetch"
    /\ \E answer \in HistoryAnswers : ucr_history_answer(answer)
InfoCall ==
    /\ pc = "idle"
    /\ \E offense \in InfoOffenseInputs, state \in StateInputs : ucr_info_call(offense, state)

InfoAnswer ==
    /\ tool = "ucr_info" /\ pc = "models"
    /\ \E answer \in InfoAnswers : ucr_info_answer(answer)

Next ==
    \/ CompareCall
    \/ CompareAnswer
    \/ CompareLateAnswer
    \/ ForecastCall
    \/ ForecastPredictAnswer
    \/ ForecastHistoryAnswer
    \/ HistoryCall
    \/ HistoryAnswer
    \/ InfoCall
    \/ InfoAnswer

Spec == Init /\ [][Next]_vars

-----------------------------------------------------------------------------
(* Properties of ucr_compare *)

\* the fetch of list position i has ended without / with an error message
Succeeded(i) ==
    tasks[i].done /\ ~tasks[i].result.raised /\ IsNone(tasks[i].result.value[4])
Failed(i) ==
    tasks[i].done /\ ~tasks[i].result.raised /\ ~IsNone(tasks[i].result.value[4])

\* the lines of one kind in the returned output, in output order
Lines(kind) == SelectSeq(outcome.value, LAMBDA l : l.line = kind)

\* ucr_compare has ended after passing its checks
CompareEnded == tool = "ucr_compare" /\ pc = "done" /\ Len(tasks) > 0

\* the messages a failed fetch is reported with
FETCH_ERRORS == {"Request timed out", "API error: 503", "Connection error: Connection refused"}

\* C1: when ucr_compare has passed its checks and the fetch of at least one
\* offense succeeded, the invocation returns a table and raises nothing,
\* whatever failed for the other offenses; the table has one row for every
\* offense that succeeded and one error line, naming the offense and carrying
\* its message, for every offense that failed.
C1_FailureIsolation ==
    (CompareEnded /\ \E i \in DOMAIN tasks : Succeeded(i)) =>
        /\ Returned
        /\ \A i \in DOMAIN tasks : Succeeded(i) \/ Failed(i)
        /\ Len(Lines("row")) = Cardinality({i \in DOMAIN tasks : Succeeded(i)})
        /\ Len(Lines("error")) = Cardinality({i \in DOMAIN tasks : Failed(i)})
        /\ \A i \in DOMAIN tasks :
              /\ Succeeded(i) =>
                    \E k \in DOMAIN Lines("row") :
                        Lines("row")[k].offense = format_offense_name(locals.offenses[i])
              /\ Failed(i) =>
                    \E k \in DOMAIN Lines("error") :
                        /\ Lines("error")[k].offense = format_offense_name(locals.offenses[i])
                        /\ Lines("error")[k].message = tasks[i].result.value[4].text
                        /\ Lines("error")[k].message \in FETCH_ERRORS

\* a table with a row for one offense and an error line for a timed-out other
C1_Witness ==
    /\ CompareEnded /\ Returned
    /\ \E i, j \in DOMAIN tasks :
          /\ Succeeded(i)
          /\ Failed(j) /\ tasks[j].result.value[4].text = "Request timed out"
    /\ Len(Lines("row")) = 1 /\ Len(Lines("error")) = 1

\* C2: after passing its checks ucr_compare fails with the 'temporarily
\* unavailable' error, returning no table, exactly when the fetch of every
\* listed offense failed.
C2_AllFailed ==
    CompareEnded =>
        /\ RaisedToolError(SERVICE_UNAVAILABLE) <=> (\A i \in DOMAIN tasks : Failed(i))
        /\ (\E i \in DOMAIN tasks : Succeeded(i)) => ~Raised

\* every fetch failed, one by a timeout and one by a refused connection
C2_Witness ==
    /\ CompareEnded /\ RaisedToolError(SERVICE_UNAVAILABLE)
    /\ \A i \in DOMAIN tasks : Failed(i)
    /\ \E i, j \in DOMAIN tasks :
          /\ tasks[i].result.value[4].text = "Request timed out"
          /\ tasks[j].result.value[4].text = "Connection error: Connection refused"

TOO_FEW == "At least 2 offenses are required for comparison."
TOO_MANY == "Maximum 5 offenses can be compared at once."

\* C3: ucr_compare with fewer than 2 offenses fails with the 'At least 2'
\* error and with more than 5 with the 'Maximum 5' error, each carrying the
\* count given, whatever the state and the entries are, and with no call issued.
C3_CountCheckedFirst ==
    (tool = "ucr_compare" /\ pc # "idle") =>
        /\ Len(args.offenses) < 2 =>
              /\ RaisedToolError(TOO_FEW)
              /\ outcome.exc.detail = Len(args.offenses)
              /\ calls = <<>>
        /\ Len(args.offenses) > 5 =>
              /\ RaisedToolError(TOO_MANY)
              /\ outcome.exc.detail = Len(args.offenses)
              /\ calls = <<>>

\* six entries, none of which normalizes, with a state that is no state
C3_Witness ==
    /\ tool = "ucr_compare" /\ RaisedToolError(TOO_MANY)
    /\ Len(args.offenses) = 6
    /\ compare_normalize_offense(args.offenses[1]).raised
    /\ compare_normalize_state(args.state).raised
    /\ calls = <<>>

\* C4: the i-th joined result is the result for the i-th offense of the
\* list, whatever the order in which the fetches ended; the rows and the
\* error lines of the table each follow the order of the list.
C4_JoinKeepsInputOrder ==
    (CompareEnded /\ Len(gathered) > 0) =>
        /\ Len(gathered) = Len(args.offenses)
        /\ \A i \in DOMAIN gathered :
              /\ gathered[i][1] = compare_normalize_offense(args.offenses[i]).value
              /\ gathered[i] = tasks[i].result.value
        /\ Returned =>
              /\ [k \in DOMAIN Lines("row") |-> Lines("row")[k].offense]
                 = LET ok == Ascending({i \in DOMAIN tasks : Succeeded(i)})
                   IN  [k \in DOMAIN ok |-> format_offense_name(locals.offenses[ok[k]])]
              /\ [k \in DOMAIN Lines("error") |-> Lines("error")[k].offense]
                 = LET bad == Ascending({i \in DOMAIN tasks : Failed(i)})
                   IN  [k \in DOMAIN bad |-> format_offense_name(locals.offenses[bad[k]])]

\* the fetch of the second offense ended before that of the first, and the
\* two offenses differ
C4_Witness ==
    /\ CompareEnded /\ Returned
    /\ finished = <<2, 1>>
    /\ gathered[1][1] # gathered[2][1]
    /\ Len(Lines("row")) = 2

\* the list positions whose entry does not normalize, ascending
InvalidPositions == Ascending({i \in DOMAIN args.offenses :
                                  compare_normalize_offense(args.offenses[i]).raised})

INVALID_LIST == "Invalid offense(s) in list"

\* the invocation failed with one invalid-offense error that has an entry for
\* every invalid list position, in list order, and issued no call
InvalidListReported ==
    /\ RaisedToolError(INVALID_LIST)
    /\ Len(outcome.exc.detail) = Len(InvalidPositions)
    /\ \A k \in DOMAIN InvalidPositions :
          outcome.exc.detail[k].input = args.offenses[InvalidPositions[k]]
    /\ calls = <<>>

\* C5 as stated: a list of 2..5 entries with an entry that does not
\* normalize always fails with the invalid-offense error listing every
\* invalid entry.
C5_AsStated ==
    (tool = "ucr_compare" /\ pc # "idle" /\ Len(args.offenses) \in 2..5
        /\ Len(InvalidPositions) > 0)
    => InvalidListReported

\* C5: a list of 2..5 entries with an entry that does not normalize, given
\* with no state or with a valid state, fails with one invalid-offense error
\* that has exactly one entry per invalid list element, in list order, and no
\* call is issued; with a state that is not valid the invocation fails with
\* the invalid-state error instead, still before any call.
C5_InvalidOffensesAggregated ==
    (tool = "ucr_compare" /\ pc # "idle" /\ Len(args.offenses) \in 2..5
        /\ Len(InvalidPositions) > 0)
    => IF args.state = None \/ ~compare_normalize_state(args.state).raised
       THEN InvalidListReported
       ELSE RaisedToolError("Invalid state code") /\ calls = <<>>

\* two invalid entries, both reported
C5_Witness ==
    /\ tool = "ucr_compare" /\ RaisedToolError(INVALID_LIST)
    /\ Len(args.offenses) = 2
    /\ Len(outcome.exc.detail) = 2
    /\ outcome.exc.detail[1].input # outcome.exc.detail[2].input

-----------------------------------------------------------------------------
(* format_comparison_output on its own *)

\* longest result list given to format_comparison_output
MaxFormatLen == 2

\* the latest actual count and the last predicted count of a fetched offense
FormatValues ==
    { <<100, 110>>, <<100, 111>>, <<100, 90>>, <<100, 89>>, <<100, 100>>,
      <<0, 5>>, <<0, 0>> }

FormatOffenses == <<homicide, burglary, motor_vehicle_theft>>

\* what fetch_offense_data returns for list position i
FormatResults(i) ==
    { <<FormatOffenses[i],
        [predictions |-> <<[date |-> Date(2025, 1), predicted |-> 104],
                           [date |-> Date(2025, 2), predicted |-> v[2]]>>,
         metadata |-> [model_type |-> "ARIMA", training_end |-> Date(2024, 10)]],
        [data |-> <<[date |-> Date(2024, 10), actual |-> v[1]]>>],
        NoValue>> : v \in FormatValues }
    \cup { <<FormatOffenses[i],
             [predictions |-> <<[date |-> Date(2025, 1), predicted |-> 104]>>],
             [data |-> <<[date |-> Date(2024, 10), actual |-> 100]>>],
             NoValue>> }
    \cup { <<FormatOffenses[i], NoValue, NoValue, Message("Request timed out")>> }

FormatResultLists ==
    UNION { {r \in [1..n -> UNION {FormatResults(i) : i \in 1..n}] :
                \A i \in 1..n : r[i] \in FormatResults(i)} : n \in 1..MaxFormatLen }

InitFormat ==
    /\ tool = "format_comparison_output"
    /\ pc = "idle"
    /\ args \in [results : FormatResultLists, months_ahead : CompareMonths,
                 metric : Metrics, state : {None, <<"T","X">>}]
    /\ locals = NoValue
    /\ calls = <<>>
    /\ tasks = <<>>
    /\ finished = <<>>
    /\ gathered = <<>>
    /\ outcome = NoOutcome

FormatCall ==
    /\ tool = "format_comparison_output" /\ pc = "idle"
    /\ Finish(Return(format_comparison_output(args.results, args.months_ahead,
                                              args.metric, args.state)))
    /\ UNCHANGED <<tool, args, locals, calls, tasks, finished, gathered>>

NextFormat == FormatCall

SpecFormat == InitFormat /\ [][NextFormat]_vars

\* the list positions of the results that carry no error, ascending
FetchedPositions ==
    Ascending({i \in DOMAIN args.results : IsNone(args.results[i][4])})

\* the counts the table shows for list position i
CurrentOf(i) == args.results[i][3].data[Len(args.results[i][3].data)].actual
ForecastOf(i) ==
    args.results[i][2].predictions[Len(args.results[i][2].predictions)].predicted

\* the change of position i is more than 10 percent up or down: from 0 any
\* change is infinite, otherwise |forecast - current| * 100 > 10 * current
ChangesByMoreThanTen(i) ==
    IF CurrentOf(i) = 0 THEN ForecastOf(i) # 0
    ELSE \/ (ForecastOf(i) - CurrentOf(i)) * 100 > 10 * CurrentOf(i)
         \/ (CurrentOf(i) - ForecastOf(i)) * 100 > 10 * CurrentOf(i)

\* C6: in percent_change mode the row of a fetched offense carries the
\* warning marker, and a 'shows significant projected increase|decrease'
\* line names the offense below the table, exactly when the change is more
\* than 10 percent in either direction (exactly +10 or -10 gives neither);
\* the line says 'increase' for a positive change and 'decrease' for a
\* negative one.
C6_WarningAboveTenPercent ==
    (tool = "format_comparison_output" /\ pc = "done" /\ args.metric = "percent_change") =>
        LET fetched == FetchedPositions
            warned == SelectSeq(fetched, LAMBDA i : ChangesByMoreThanTen(i))
        IN  /\ Len(Lines("row")) = Len(fetched)
            /\ \A k \in DOMAIN fetched :
                  Lines("row")[k].marker <=> ChangesByMoreThanTen(fetched[k])
            /\ Lines("warning")
               = [k \in DOMAIN warned |->
                     [line |-> "warning",
                      offense |-> format_offense_name(args.results[warned[k]][1]),
                      direction |-> IF CurrentOf(warned[k]) = 0
                                       \/ ForecastOf(warned[k]) > CurrentOf(warned[k])
                                    THEN "increase" ELSE "decrease"]]

\* one offense changes by exactly +10 percent and gets no warning, the other
\* by -11 percent and gets the marker and a 'decrease' line
C6_Witness ==
    /\ tool = "format_comparison_output" /\ pc = "done"
    /\ args.metric = "percent_change"
    /\ Len(args.results) = 2
    /\ IsNone(args.results[1][4]) /\ IsNone(args.results[2][4])
    /\ CurrentOf(1) = 100 /\ ForecastOf(1) = 110
    /\ CurrentOf(2) = 100 /\ ForecastOf(2) = 89
    /\ ~Lines("row")[1].marker /\ Lines("row")[2].marker
    /\ Len(Lines("warning")) = 1 /\ Lines("warning")[1].direction = "decrease"

-----------------------------------------------------------------------------
(* Properties of the upstream calls of ucr_forecast, ucr_history and ucr_info *)

\* the answer to a call was a timeout / a refused connection / an error status
IsTimeout(answer) == answer.kind = "timeout"
IsConnectionError(answer) == answer.kind = "connect"
IsErrorStatus(answer) == answer.kind = "response" /\ answer.status_code \notin 200..299

\* C7: in ucr_forecast with include_history set, after the prediction call
\* succeeded, a history call that fails with an HTTP status error, a timeout or
\* a connection error does not fail the invocation: it returns the forecast,
\* with no 'Recent History' section in the summary and no history field in the
\* detailed output.
C7_HistoryFailureSwallowed ==
    (/\ tool = "ucr_forecast" /\ pc = "done" /\ args.include_history
     /\ Len(calls) = 2
     /\ (IsTimeout(calls[2].answer) \/ IsConnectionError(calls[2].answer)
         \/ IsErrorStatus(calls[2].answer)))
    => /\ Returned
       /\ outcome.value.format = "summary" =>
             /\ \A k \in DOMAIN outcome.value.lines :
                   outcome.value.lines[k].line \notin {"Recent History:", "history"}
             /\ \E k \in DOMAIN outcome.value.lines :
                   outcome.value.lines[k].line = "Predicted Incidents:"
       /\ outcome.value.format = "detailed" =>
             /\ "history" \notin DOMAIN outcome.value.json
             /\ "predictions" \in DOMAIN outcome.value.json

\* the history call timed out and the summary was returned all the same
C7_Witness ==
    /\ tool = "ucr_forecast" /\ pc = "done" /\ args.include_history
    /\ Len(calls) = 2 /\ IsTimeout(calls[2].answer)
    /\ Returned /\ outcome.value.format = "summary"

\* the error each kind of upstream failure is reported with, per tool
UPSTREAM_ERRORS ==
    [ucr_forecast |->
        [timeout |-> "The FBI UCR prediction service is not responding.",
         not_found |-> "No prediction model found",
         server |-> "The FBI UCR prediction service is experiencing issues.",
         status |-> "Failed to get predictions",
         connect |-> "Could not connect to the FBI UCR prediction service"],
     ucr_history |->
        [timeout |-> "The FBI Crime Data Explorer API is not responding.",
         not_found |-> "No data found",
         server |-> "The FBI Crime Data Explorer API is experiencing issues.",
         status |-> "FBI API request failed",
         connect |-> "Could not connect to the FBI Crime Data Explorer API"]]

\* the kind of failure an answer is
FailureKind(answer) ==
    IF IsTimeout(answer) THEN "timeout"
    ELSE IF IsConnectionError(answer) THEN "connect"
    ELSE IF answer.status_code = 404 THEN "not_found"
    ELSE IF answer.status_code >= 500 THEN "server"
    ELSE "status"

\* C8: when the prediction call of ucr_forecast or the data call of
\* ucr_history ends in a timeout, an HTTP status error or a connection error,
\* the invocation fails with one ToolError and returns nothing: 'not
\* responding' for a timeout, the not-found message for 404, 'experiencing
\* issues' for 500 and above, the generic message with the status code for any
\* other error status, 'Could not connect' for any other connection error; a
\* timeout is never reported as a connection error.
C8_UpstreamFailureMapping ==
    (/\ tool \in {"ucr_forecast", "ucr_history"} /\ pc = "done"
     /\ Len(calls) >= 1
     /\ (IsTimeout(calls[1].answer) \/ IsConnectionError(calls[1].answer)
         \/ IsErrorStatus(calls[1].answer)))
    => /\ RaisedToolError(UPSTREAM_ERRORS[tool][FailureKind(calls[1].answer)])
       /\ FailureKind(calls[1].answer) = "status" =>
             outcome.exc.detail = calls[1].answer.status_code
       /\ IsTimeout(calls[1].answer) =>
             outcome.exc.message # UPSTREAM_ERRORS[tool].connect
       /\ Len(calls) = 1

\* the data call of ucr_history timed out
C8_Witness ==
    /\ tool = "ucr_history" /\ pc = "done"
    /\ Len(calls) = 1 /\ IsTimeout(calls[1].answer)
    /\ RaisedToolError("The FBI Crime Data Explorer API is not responding.")

\* the arguments of the invocation that the tool's checks reject
BadCompareArgs ==
    \/ Len(args.offenses) \notin 2..5
    \/ compare_normalize_state(args.state).raised
    \/ \E i \in DOMAIN args.offenses : compare_normalize_offense(args.offenses[i]).raised
BadForecastArgs ==
    \/ forecast_normalize_offense(args.offense).raised
    \/ forecast_normalize_state(args.state).raised
    \/ args.months_ahead \notin 1..12
    \/ strip(lower(args.format)) \notin {SUMMARY, DETAILED}
BadHistoryArgs ==
    \/ history_normalize_offense(args.offense).raised
    \/ history_normalize_state(args.state).raised
    \/ args.from_year < 2015
    \/ IF IsNone(args.to_year) THEN \A now \in ClockYears : args.from_year > now
       ELSE args.from_year > args.to_year.value
    \/ strip(lower(args.format)) \notin {SUMMARY, DETAILED}
BadInfoState == args.state # None /\ strip(upper(args.state)) \notin VALID_STATES
BadArgs ==
    \/ tool = "ucr_compare" /\ BadCompareArgs
    \/ tool = "ucr_forecast" /\ BadForecastArgs
    \/ tool = "ucr_history" /\ BadHistoryArgs
    \/ tool = "ucr_info" /\ BadInfoState

\* the invocation failed with one of the errors that reject a parameter
VALIDATION_ERRORS ==
    { TOO_FEW, TOO_MANY, INVALID_LIST, "Invalid state code", "Unknown offense type",
      "Unknown state code", "months_ahead must be between 1 and 12", "Invalid format",
      "from_year must be 2015 or later",
      "from_year must be less than or equal to to_year" }
OFFENSE_NOT_FOUND == "Offense not found"

\* C9 as stated: in all four tools an invocation that failed because of a
\* bad parameter, an unknown offense included, has issued no call.
C9_AsStated ==
    (/\ pc = "done" /\ Raised /\ outcome.exc.type = "ToolError"
     /\ outcome.exc.message \in VALIDATION_ERRORS \cup {OFFENSE_NOT_FOUND})
    => calls = <<>>

\* C9: in ucr_compare, ucr_forecast and ucr_history, and for the state of
\* ucr_info, arguments that the checks reject make the invocation fail with a
\* validation error before any call is issued; the unknown offense of ucr_info
\* is the exception: it is reported only after the one call to the models
\* endpoint has been answered.
C9_ValidationBeforeCalls ==
    /\ (pc # "idle" /\ BadArgs) =>
          /\ pc = "done" /\ Raised
          /\ outcome.exc.type = "ToolError"
          /\ outcome.exc.message \in VALIDATION_ERRORS
          /\ calls = <<>>
    /\ (pc = "done" /\ Raised /\ outcome.exc.type = "ToolError"
        /\ outcome.exc.message \in VALIDATION_ERRORS) => calls = <<>>
    /\ RaisedToolError(OFFENSE_NOT_FOUND) =>
          /\ tool = "ucr_info"
          /\ Len(calls) = 1 /\ calls[1].answer.kind = "response"

\* ucr_forecast rejected months_ahead = 13, all else being valid, with no call
C9_Witness ==
    /\ tool = "ucr_forecast" /\ pc = "done"
    /\ args.months_ahead = 13
    /\ ~forecast_normalize_offense(args.offense).raised
    /\ ~forecast_normalize_state(args.state).raised
    /\ RaisedToolError("months_ahead must be between 1 and 12")
    /\ calls = <<>>

-----------------------------------------------------------------------------
(* normalize_offense on its own *)

MODULES == {"ucr_compare", "ucr_forecast", "ucr_history"}

\* normalize_offense of one of the three modules that define it
normalize_offense(module, offense) ==
    IF module = "ucr_compare" THEN compare_normalize_offense(offense)
    ELSE IF module = "ucr_forecast" THEN forecast_normalize_offense(offense)
    ELSE history_normalize_offense(offense)

OFFENSE_ALIASES(module) ==
    IF module = "ucr_compare" THEN compare_OFFENSE_ALIASES
    ELSE IF module = "ucr_forecast" THEN forecast_OFFENSE_ALIASES
    ELSE history_OFFENSE_ALIASES

\* every canonical name and every key of an alias table
KnownSpellings ==
    VALID_OFFENSES \cup UNION {Keys(OFFENSE_ALIASES(module)) : module \in MODULES}

\* the spellings as they are, and in capitals with white space around them;
\* with strings that are neither a name nor an alias
NormalizeInputs ==
    KnownSpellings
    \cup { <<" ">> \o upper(s) \o <<"\t">> : s \in KnownSpellings }
    \cup { <<>>,
           <<"r","o","b","b","e","r","y">>,
           <<"v","i","o","l","e","n","t"," ","c","r","i","m","e">>,
           <<"h","o","m","i","c","i","d","e","-">>,
           <<"b","u","r","g","l","a","r","y","_">> }

InitNormalize ==
    /\ tool = "normalize_offense"
    /\ pc = "idle"
    /\ args \in [module : MODULES, offense : NormalizeInputs]
    /\ locals = NoValue
    /\ calls = <<>>
    /\ tasks = <<>>
    /\ finished = <<>>
    /\ gathered = <<>>
    /\ outcome = NoOutcome

\* normalize_offense applied to the input
NormalizeCall ==
    /\ tool = "normalize_offense" /\ pc = "idle"
    /\ Finish(normalize_offense(args.module, args.offense))
    /\ UNCHANGED <<tool, args, locals, calls, tasks, finished, gathered>>

\* normalize_offense applied to what it returned
NormalizeAgain ==
    /\ tool = "normalize_offense" /\ pc = "done" /\ ~outcome.raised
    /\ pc' = "again"
    /\ locals' = [first |-> outcome.value]
    /\ outcome' = normalize_offense(args.module, outcome.value)
    /\ UNCHANGED <<tool, args, calls, tasks, finished, gathered>>

NextNormalize == NormalizeCall \/ NormalizeAgain

SpecNormalize == InitNormalize /\ [][NextNormalize]_vars

\* what the first application gave
FirstResult == IF pc = "again" THEN Return(locals.first) ELSE outcome

\* C10: in each of the three modules normalize_offense gives every input a
\* canonical offense or a rejection: an input whose lower-cased, trimmed form
\* is canonical returns that form, one whose form is a key of the module's
\* alias table returns the canonical value listed for it, every other input is
\* rejected; and applied to its own output it returns that output.
C10_NormalizeOffense ==
    (tool = "normalize_offense" /\ pc # "idle") =>
        LET key == strip(lower(args.offense))
            aliases == OFFENSE_ALIASES(args.module)
        IN  /\ key \in VALID_OFFENSES => FirstResult = Return(key)
            /\ (key \notin VALID_OFFENSES /\ key \in Keys(aliases)) =>
                  \E kv \in aliases : kv[1] = key /\ FirstResult = Return(kv[2])
            /\ (key \notin VALID_OFFENSES /\ key \notin Keys(aliases)) =>
                  FirstResult.raised
            /\ ~FirstResult.raised => FirstResult.value \in VALID_OFFENSES
            /\ pc = "again" => outcome = FirstResult

\* ' MVT\t' is normalized in ucr_history to 'motor-vehicle-theft', which
\* normalizes to itself
C10_Witness ==
    /\ tool = "normalize_offense" /\ pc = "again"
    /\ args.module = "ucr_history"
    /\ args.offense = <<" ","M","V","T","\t">>
    /\ locals.first = motor_vehicle_theft
    /\ outcome = Return(motor_vehicle_theft)

-----------------------------------------------------------------------------
(* normalize_state on its own *)

\* normalize_state of one of the three modules that define it
normalize_state(module, state) ==
    IF module = "ucr_compare" THEN compare_normalize_state(state)
    ELSE IF module = "ucr_forecast" THEN forecast_normalize_state(state)
    ELSE history_normalize_state(state)

\* None; the five codes in capitals, in small letters, in mixed case with
\* white space around them; and strings that are no code
NormalizeStateInputs ==
    { None }
    \cup VALID_STATES
    \cup { lower(s) : s \in VALID_STATES }
    \cup { <<" ", s[1]>> \o lower(<<s[2]>>) \o <<"\n">> : s \in VALID_STATES }
    \cup { <<"\t">> \o lower(s) \o <<" ", " ">> : s \in VALID_STATES }
    \cup { <<>>, <<" ">>, <<"Z","Z">>, <<"C">>, <<"C","A","L">>, <<"C"," ","A">>,
           <<"T","e","x","a","s">>, <<"n","o","n","e">>, <<"W","A">> }

InitNormalizeState ==
    /\ tool = "normalize_state"
    /\ pc = "idle"
    /\ args \in [module : MODULES, state : NormalizeStateInputs]
    /\ locals = NoValue
    /\ calls = <<>>
    /\ tasks = <<>>
    /\ finished = <<>>
    /\ gathered = <<>>
    /\ outcome = NoOutcome

\* normalize_state applied to the input
NormalizeStateCall ==
    /\ tool = "normalize_state" /\ pc = "idle"
    /\ Finish(normalize_state(args.module, args.state))
    /\ UNCHANGED <<tool, args, locals, calls, tasks, finished, gathered>>

NextNormalizeState == NormalizeStateCall

SpecNormalizeState == InitNormalizeState /\ [][NextNormalizeState]_vars

STATE_CODES == {<<"C","A">>, <<"T","X">>, <<"F","L">>, <<"N","Y">>, <<"I","L">>}

\* C11: normalize_state returns None for None; for a string whose
\* upper-cased, trimmed form is one of CA, TX, FL, NY, IL it returns that
\* code; every other string, the empty one included, is rejected; what it
\* returns is never outside {None, CA, TX, FL, NY, IL}.
C11_NormalizeState ==
    (tool = "normalize_state" /\ pc = "done") =>
        /\ args.state = None => outcome = Return(None)
        /\ (args.state # None /\ strip(upper(args.state)) \in STATE_CODES) =>
              outcome = Return(strip(upper(args.state)))
        /\ (args.state # None /\ strip(upper(args.state)) \notin STATE_CODES) =>
              outcome.raised
        /\ ~outcome.raised => outcome.value \in STATE_CODES \cup {None}

\* the empty string is rejected by ucr_history's normalize_state
C11_Witness ==
    /\ tool = "normalize_state" /\ pc = "done"
    /\ args.module = "ucr_history" /\ args.state = <<>>
    /\ outcome.raised /\ outcome.exc.type = "ToolError"

-----------------------------------------------------------------------------
(* calculate_percent_change on its own *)

PercentChangeValues == {-50, 0, 1, 3, 90, 100, 110, 111, 1000}

InitPercentChange ==
    /\ tool = "calculate_percent_change"
    /\ pc = "idle"
    /\ args \in [current : PercentChangeValues, forecast : PercentChangeValues]
    /\ locals = NoValue
    /\ calls = <<>>
    /\ tasks = <<>>
    /\ finished = <<>>
    /\ gathered = <<>>
    /\ outcome = NoOutcome

PercentChangeCall ==
    /\ tool = "calculate_percent_change" /\ pc = "idle"
    /\ Finish(Return(calculate_percent_change(args.current, args.forecast)))
    /\ UNCHANGED <<tool, args, locals, calls, tasks, finished, gathered>>

NextPercentChange == PercentChangeCall

SpecPercentChange == InitPercentChange /\ [][NextPercentChange]_vars

\* C12: calculate_percent_change returns (forecast - current) / current * 100
\* when current is not 0: positive when forecast > current > 0, negative when
\* forecast < current and current > 0, 0 when the two are equal; it returns 0
\* when both are 0 and +infinity when only current is 0; it never raises.
C12_PercentChange ==
    (tool = "calculate_percent_change" /\ pc = "done") =>
        /\ ~outcome.raised
        /\ args.current # 0 =>
              /\ ~outcome.value.inf
              /\ outcome.value.den > 0
              /\ outcome.value.num * args.current
                 = (args.forecast - args.current) * 100 * outcome.value.den
        /\ (args.current > 0 /\ args.forecast > args.current) => outcome.value.num > 0
        /\ (args.current > 0 /\ args.forecast < args.current) => outcome.value.num < 0
        /\ (args.current # 0 /\ args.forecast = args.current) => outcome.value.num = 0
        /\ (args.current = 0 /\ args.forecast = 0) =>
              ~outcome.value.inf /\ outcome.value.num = 0
        /\ (args.current = 0 /\ args.forecast # 0) =>
              outcome.value.inf /\ outcome.value.num > 0

\* from 0 to 3 the change is +infinity
C12_Witness ==
    /\ tool = "calculate_percent_change" /\ pc = "done"
    /\ args.current = 0 /\ args.forecast = 3
    /\ outcome = Return(Infinity)

-----------------------------------------------------------------------------
(* determine_trend and calculate_trend on their own *)

\* longest series given to the two functions
MaxSeriesLen == 3

TrendValues == {0, 94, 95, 100, 105, 106}

TREND_FUNCTIONS == {"determine_trend", "calculate_trend"}

\* the series of points with the given values, as each function reads it
trend_series(function, values) ==
    IF function = "determine_trend"
    THEN [k \in DOMAIN values |-> [date |-> Date(2025, k), predicted |-> values[k]]]
    ELSE [k \in DOMAIN values |-> [date |-> Date(2024, k), actual |-> values[k]]]

\* the function applied to the series with the given values
trend(function, values) ==
    IF function = "determine_trend" THEN determine_trend(trend_series(function, values))
    ELSE calculate_trend(trend_series(function, values))

InitTrend ==
    /\ tool \in TREND_FUNCTIONS
    /\ pc = "idle"
    /\ args \in [values : UNION {[1..n -> TrendValues] : n \in 0..MaxSeriesLen}]
    /\ locals = NoValue
    /\ calls = <<>>
    /\ tasks = <<>>
    /\ finished = <<>>
    /\ gathered = <<>>
    /\ outcome = NoOutcome

TrendCall ==
    /\ tool \in TREND_FUNCTIONS /\ pc = "idle"
    /\ Finish(Return(trend(tool, args.values)))
    /\ UNCHANGED <<tool, args, locals, calls, tasks, finished, gathered>>

NextTrend == TrendCall

SpecTrend == InitTrend /\ [][NextTrend]_vars

FirstValue == args.values[1]
LastValue == args.values[Len(args.values)]

\* C13: determine_trend and calculate_trend give ('Stable', 0) for fewer than
\* 2 points or a first value of 0; otherwise the percent is (last - first) /
\* first * 100 and the label is 'Increasing' iff it is above 5, 'Decreasing'
\* iff it is below -5 and 'Stable' otherwise, exactly +5 and -5 included;
\* replacing an interior element by any value leaves the result as it is.
C13_TrendFromEnds ==
    (tool \in TREND_FUNCTIONS /\ pc = "done") =>
        /\ ~outcome.raised
        /\ IF Len(args.values) < 2 \/ FirstValue = 0
           THEN outcome.value = <<"Stable", Ratio(0, 1)>>
           ELSE /\ ~outcome.value[2].inf /\ outcome.value[2].den > 0
                /\ outcome.value[2].num * FirstValue
                   = (LastValue - FirstValue) * 100 * outcome.value[2].den
                /\ outcome.value[1] = "Increasing"
                      <=> (LastValue - FirstValue) * 100 > 5 * FirstValue
                /\ outcome.value[1] = "Decreasing"
                      <=> (LastValue - FirstValue) * 100 < (-5) * FirstValue
                /\ outcome.value[1] \in {"Increasing", "Decreasing", "Stable"}
        /\ \A k \in 2..(Len(args.values) - 1) : \A v \in TrendValues :
              trend(tool, [args.values EXCEPT ![k] = v]) = outcome.value

\* a history that goes from 100 over 0 to 105, exactly +5 percent, is 'Stable'
C13_Witness ==
    /\ tool = "calculate_trend" /\ pc = "done"
    /\ args.values = <<100, 0, 105>>
    /\ outcome.value[1] = "Stable"
    /\ outcome.value[2] = Ratio(500, 100)

-----------------------------------------------------------------------------
(* calculate_yearly_totals on its own *)

IsoDate(yyyy, mm) == yyyy \o <<"-">> \o mm

\* the dates with a hyphen given to calculate_yearly_totals, each with its year
HYPHENATED_DATES ==
    { <<IsoDate(Y2020, M01), 2020>>, <<IsoDate(Y2020, M02), 2020>>,
      <<IsoDate(Y2021, M01), 2021>> }

\* points with a date of a year, with a date without a hyphen, with an empty
\* date, without a date, and without a count
YearlyPoints ==
    { [date |-> d, actual |-> n] :
         d \in Keys(HYPHENATED_DATES) \cup {Y2020, <<>>}, n \in {7, 20} }
    \cup { [actual |-> 7], [date |-> IsoDate(Y2021, M01)] }

InitYearlyTotals ==
    /\ tool = "calculate_yearly_totals"
    /\ pc = "idle"
    /\ args \in [data : UNION {[1..n -> YearlyPoints] : n \in 0..MaxSeriesLen}]
    /\ locals = NoValue
    /\ calls = <<>>
    /\ tasks = <<>>
    /\ finished = <<>>
    /\ gathered = <<>>
    /\ outcome = NoOutcome

YearlyTotalsCall ==
    /\ tool = "calculate_yearly_totals" /\ pc = "idle"
    /\ Finish(Return(calculate_yearly_totals(args.data)))
    /\ UNCHANGED <<tool, args, locals, calls, tasks, finished, gathered>>

NextYearlyTotals == YearlyTotalsCall

SpecYearlyTotals == InitYearlyTotals /\ [][NextYearlyTotals]_vars

\* the positions of the points whose date has a hyphen, and their years
Hyphenated == {i \in DOMAIN args.data : /\ "date" \in DOMAIN args.data[i]
                                        /\ args.data[i].date \in Keys(HYPHENATED_DATES)}
YearAt(i) == Lookup(HYPHENATED_DATES, args.data[i].date)
ActualAt(i) == IF "actual" \in DOMAIN args.data[i] THEN args.data[i].actual ELSE 0

RECURSIVE ActualOver(_)
ActualOver(positions) ==
    IF positions = {} THEN 0
    ELSE ActualAt(SetMin(positions)) + ActualOver(positions \ {SetMin(positions)})

RECURSIVE TotalOver(_)
TotalOver(pairs) ==
    IF pairs = {} THEN 0
    ELSE LET p == CHOOSE p \in pairs : TRUE IN p[2] + TotalOver(pairs \ {p})

\* C14: calculate_yearly_totals has one key for each year that is the year of
\* some point's date and no other key, the value of a year is the sum of
\* 'actual' over exactly the points of that year, the empty series gives the
\* empty map, and the totals add up to the sum of 'actual' over all points
\* with a hyphenated date.
C14_YearlyTotals ==
    (tool = "calculate_yearly_totals" /\ pc = "done") =>
        /\ ~outcome.raised
        /\ Keys(outcome.value) = {YearAt(i) : i \in Hyphenated}
        /\ \A p \in outcome.value :
              p[2] = ActualOver({i \in Hyphenated : YearAt(i) = p[1]})
        /\ \A p, q \in outcome.value : p[1] = q[1] => p = q
        /\ (args.data = <<>> => outcome.value = {})
        /\ TotalOver(outcome.value) = ActualOver(Hyphenated)

\* two points of 2020, one of 2021 in between: 2020 gets 27 and 2021 gets 20
C14_Witness ==
    /\ tool = "calculate_yearly_totals" /\ pc = "done"
    /\ Len(args.data) = 3
    /\ args.data[1] = [date |-> IsoDate(Y2020, M01), actual |-> 7]
    /\ args.data[2] = [date |-> IsoDate(Y2021, M01), actual |-> 20]
    /\ args.data[3] = [date |-> IsoDate(Y2020, M02), actual |-> 20]
    /\ outcome.value = {<<2020, 27>>, <<2021, 20>>}

-----------------------------------------------------------------------------
(* Accuracy as the views report it *)

\* the model description of the prediction the forecast tool received
AnsweredModelInfo ==
    LET body == calls[1].answer.body
    IN  IF "metadata" \in DOMAIN body THEN body.metadata
        ELSE IF "model" \in DOMAIN body THEN body.model
        ELSE EmptyDict

ForecastSummaryReturned ==
    /\ tool = "ucr_forecast" /\ pc = "done" /\ ~outcome.raised
    /\ outcome.value.format = "summary"

\* the lines of the info tool's answer that report an accuracy
InfoAccuracyLines ==
    IF tool = "ucr_info" /\ pc = "done" /\ ~outcome.raised
    THEN {k \in DOMAIN outcome.value : outcome.value[k].line \in {"model", "accuracy"}}
    ELSE {}

\* C15: for every model whose mape lies in 0..100 the accuracy reported is
\* 100 - mape, in the footer of the forecast summary and in the listing and
\* the detail view of the info tool; a mape of 0 is reported as accuracy 100.
C15_AsStated ==
    /\ ForecastSummaryReturned =>
          \A k \in DOMAIN outcome.value.lines :
             (/\ outcome.value.lines[k].line = "model"
              /\ "mape" \in DOMAIN AnsweredModelInfo
              /\ AnsweredModelInfo.mape \in 0..100)
                => outcome.value.lines[k].accuracy = 100 - AnsweredModelInfo.mape
    /\ \A k \in InfoAccuracyLines :
          outcome.value[k].mape \in 0..100
             => outcome.value[k].accuracy = 100 - outcome.value[k].mape

-----------------------------------------------------------------------------
(* The year range of ucr_history *)

CurrentYear == CHOOSE now \in ClockYears : TRUE

\* the end of the range after a null to_year has been replaced
EndYear == IF IsNone(args.to_year) THEN CurrentYear ELSE args.to_year.value

HistoryYearsReached ==
    /\ tool = "ucr_history"
    /\ ~history_normalize_offense(args.offense).raised
    /\ ~history_normalize_state(args.state).raised

TOO_EARLY == "from_year must be 2015 or later"
RANGE_REVERSED == "from_year must be less than or equal to to_year"

\* C16: in ucr_history a null to_year stands for the current year in both
\* checks; a from_year below 2015 fails with the '2015 or later' error, a
\* from_year of 2015 or later above to_year fails with the 'must be less than
\* or equal' error, and otherwise the range is accepted and the request asks
\* for from = 01-<from_year> and to = 12-<to_year>, the two years unchanged.
C16_YearRange ==
    HistoryYearsReached =>
        IF args.from_year < 2015
        THEN RaisedToolError(TOO_EARLY) /\ calls = <<>>
        ELSE IF args.from_year > EndYear
        THEN /\ RaisedToolError(RANGE_REVERSED)
             /\ outcome.exc.detail = <<args.from_year, EndYear>>
             /\ calls = <<>>
        ELSE /\ ~RaisedToolError(TOO_EARLY) /\ ~RaisedToolError(RANGE_REVERSED)
             /\ strip(lower(args.format)) \in {SUMMARY, DETAILED} =>
                   /\ Len(calls) = 1
                   /\ calls[1].params.from = <<1, args.from_year>>
                   /\ calls[1].params.to = <<12, EndYear>>

\* from_year 2020 with to_year omitted: the request asks for 01-2020 to 12-2026
C16_Witness ==
    /\ tool = "ucr_history" /\ pc = "fetch"
    /\ args.from_year = 2020 /\ IsNone(args.to_year)
    /\ calls[1].params.from = <<1, 2020>>
    /\ calls[1].params.to = <<12, 2026>>

-----------------------------------------------------------------------------
(* The search of ucr_info *)

\* the info tool has ended after the upstream gave it a catalog with an entry
CatalogGiven ==
    /\ tool = "ucr_info" /\ pc = "done"
    /\ Len(calls) = 1
    /\ calls[1].answer.kind = "response"
    /\ calls[1].answer.status_code = 200
    /\ "models" \in DOMAIN calls[1].answer.body
    /\ Len(calls[1].answer.body.models) > 0

Catalog == calls[1].answer.body.models

\* the catalog positions whose offense is the argument, case and outer blanks aside
Matching ==
    {i \in DOMAIN Catalog : lower(Catalog[i].offense) = strip(lower(args.offense))}

\* C17: ucr_info with an offense and a non-empty catalog returns the detail
\* view of the first entry whose offense is the lower-cased, trimmed argument,
\* case ignored; when no entry matches it fails with the 'Offense not found'
\* error, which names the argument and lists the offenses of the catalog in
\* ascending order, each one once and none left out.
C17_FirstMatchOrNotFound ==
    (CatalogGiven /\ args.offense # None) =>
        IF Matching # {}
        THEN /\ ~outcome.raised
             /\ \E i \in Matching :
                   /\ \A j \in Matching : i <= j
                   /\ outcome.value = info_format_model_details(Catalog[i])
        ELSE /\ RaisedToolError(OFFENSE_NOT_FOUND)
             /\ outcome.exc.detail.offense = args.offense
             /\ LET listed == outcome.exc.detail.available
                IN  /\ {listed[k] : k \in DOMAIN listed}
                       = {Catalog[i].offense : i \in DOMAIN Catalog}
                    /\ \A k \in 1..(Len(listed) - 1) : StrLess(listed[k], listed[k + 1])

\* ' Homicide' finds the entry 'Homicide' ahead of the entry 'homicide' of Texas
C17_Witness ==
    /\ CatalogGiven
    /\ args.offense = <<" ","H","o","m","i","c","i","d","e">>
    /\ Catalog = InfoModels
    /\ Cardinality(Matching) = 2
    /\ ~outcome.raised
    /\ \E k \in DOMAIN outcome.value :
          outcome.value[k].line = "accuracy" /\ outcome.value[k].mape = 8

-----------------------------------------------------------------------------
(* The listing of ucr_info *)

\* the offenses of the entries the listing shows, in the order it shows them
ListedOffenses ==
    LET shown == SelectSeq(outcome.value, LAMBDA l : l.line = "entry")
    IN  [k \in DOMAIN shown |-> shown[k].offense]

\* C18: with offense and state omitted the listing has one entry for every
\* model of the catalog, so that the offense of each model appears in it, also
\* when the entries of the catalog carry no location.
C18_AsStated ==
    (CatalogGiven /\ args.offense = None /\ args.state = None) =>
        /\ ~outcome.raised
        /\ Len(ListedOffenses) = Len(Catalog)
        /\ \A i \in DOMAIN Catalog :
              \E k \in DOMAIN ListedOffenses : ListedOffenses[k] = Catalog[i].offense

-----------------------------------------------------------------------------
(* The failures of ucr_info *)

\* ucr_info has ended after its request, the state check behind it
InfoRequestEnded == tool = "ucr_info" /\ pc = "done" /\ Len(calls) = 1

InfoAnswer1 == calls[1].answer

IsJsonObject(body) == "not_json" \notin DOMAIN body

\* the answer is a 200 whose JSON has no models: an empty list, or no list
NoModelsAnswered ==
    /\ InfoAnswer1.kind = "response" /\ InfoAnswer1.status_code = 200
    /\ IsJsonObject(InfoAnswer1.body)
    /\ ("models" \in DOMAIN InfoAnswer1.body => Len(InfoAnswer1.body.models) = 0)

INFO_HTTP_ERROR == "Failed to fetch model information: HTTP"
INFO_NO_MODELS == {"No models available for state", "No models available from the API"}
INFO_TIMED_OUT == "Request timed out while fetching model information"
INFO_NETWORK_ERROR == "Network error while fetching model information"
INFO_UNEXPECTED == "Unexpected error"

\* C19: once the state check has passed, ucr_info fails with a ToolError and
\* nothing else: a status other than 200 gives 'Failed to fetch model
\* information: HTTP <status>', an empty or missing models list 'No models
\* available', a timeout 'timed out', another request error 'Network error',
\* any other exception 'Unexpected error'; a ToolError of the request block
\* keeps its message and is never turned into 'Unexpected error'.
C19_InfoFailures ==
    InfoRequestEnded =>
        /\ outcome.raised => outcome.exc.type = "ToolError"
        /\ InfoAnswer1.kind = "timeout" => RaisedToolError(INFO_TIMED_OUT)
        /\ InfoAnswer1.kind = "connect" => RaisedToolError(INFO_NETWORK_ERROR)
        /\ (InfoAnswer1.kind = "response" /\ InfoAnswer1.status_code # 200) =>
              /\ RaisedToolError(INFO_HTTP_ERROR)
              /\ outcome.exc.detail = InfoAnswer1.status_code
        /\ NoModelsAnswered =>
              /\ outcome.raised /\ outcome.exc.message \in INFO_NO_MODELS
              /\ outcome.exc.message = "No models available for state"
                    <=> args.state # None
        /\ (/\ InfoAnswer1.kind = "response" /\ InfoAnswer1.status_code = 200
            /\ ~IsJsonObject(InfoAnswer1.body)) => RaisedToolError(INFO_UNEXPECTED)
        /\ RaisedToolError(INFO_UNEXPECTED) =>
              /\ InfoAnswer1.kind = "response" /\ InfoAnswer1.status_code = 200
              /\ ~IsJsonObject(InfoAnswer1.body)

\* a 503 reaches the caller as 'Failed to fetch model information: HTTP 503'
C19_Witness ==
    /\ InfoRequestEnded
    /\ InfoAnswer1.kind = "response" /\ InfoAnswer1.status_code = 503
    /\ RaisedToolError(INFO_HTTP_ERROR)
    /\ outcome.exc.detail = 503

-----------------------------------------------------------------------------
(* The outbound calls of one invocation *)

CallsTo(method, endpoint) ==
    {c \in DOMAIN calls : calls[c].method = method /\ calls[c].endpoint = endpoint}

\* the number of calls issued so far is within the count fixed for the tool
CallsBounded ==
    /\ tool = "ucr_forecast" =>
          /\ Cardinality(CallsTo("POST", "/api/v1/predict")) <= 1
          /\ Cardinality(CallsTo("GET", "/api/v1/history")) <= 1
          /\ DOMAIN calls = CallsTo("POST", "/api/v1/predict")
                               \cup CallsTo("GET", "/api/v1/history")
    /\ tool \in {"ucr_history", "ucr_info"} =>
          /\ Len(calls) <= 1
          /\ \A c \in DOMAIN calls : calls[c].method = "GET"
    /\ (tool = "ucr_compare" /\ calls # <<>>) =>
          /\ Len(locals.offenses) <= 5
          /\ Len(calls) = 2 * Len(locals.offenses)
          /\ \A i \in DOMAIN locals.offenses :
                /\ calls[2 * i - 1].method = "POST"
                /\ calls[2 * i - 1].offense = locals.offenses[i]
                /\ calls[2 * i].method = "GET"
                /\ calls[2 * i].offense = locals.offenses[i]

\* the prediction request of ucr_forecast has been answered with a success
PredictionSucceeded ==
    /\ calls'[1].answer.kind = "response"
    /\ calls'[1].answer.status_code \in 200..299
    /\ IsJsonObject(calls'[1].answer.body)

\* a step issues calls only when the tool starts, or when ucr_forecast goes on
\* to its history request after a prediction that succeeded; every other step
\* leaves each call what it was, its answer aside
NoReissue ==
    \/ pc = "idle"
    \/ /\ tool = "ucr_forecast" /\ pc = "predict"
       /\ Len(calls) = 1 /\ Len(calls') = 2
       /\ PredictionSucceeded
       /\ calls'[2].method = "GET"
    \/ /\ Len(calls') = Len(calls)
       /\ \A c \in DOMAIN calls :
             /\ calls'[c].method = calls[c].method
             /\ calls'[c].endpoint = calls[c].endpoint
             /\ calls'[c].offense = calls[c].offense
             /\ calls'[c].params = calls[c].params

\* C20: within one invocation no call is issued again after it has failed,
\* and the calls stay within a fixed count: ucr_forecast at most one prediction
\* POST and one history GET, ucr_history and ucr_info at most one GET,
\* ucr_compare with N validated offenses one prediction POST and one history
\* GET per list position, 2N in all with N at most 5.
C20_NoRetry == []CallsBounded /\ [][NoReissue]_vars

\* ucr_forecast has failed on a 503 to its one prediction request
C20_Witness ==
    /\ tool = "ucr_forecast" /\ pc = "done" /\ outcome.raised
    /\ Len(calls) = 1
    /\ calls[1].method = "POST"
    /\ calls[1].answer.kind = "response" /\ calls[1].answer.status_code = 503

-----------------------------------------------------------------------------
(* The format argument of ucr_forecast and ucr_history *)

INVALID_FORMAT == "Invalid format"

\* ucr_forecast or ucr_history has been called with every argument but the
\* format in order
FormatReached ==
    \/ /\ tool = "ucr_forecast"
       /\ ~forecast_normalize_offense(args.offense).raised
       /\ ~forecast_normalize_state(args.state).raised
       /\ args.months_ahead \in 1..12
    \/ /\ tool = "ucr_history"
       /\ ~history_normalize_offense(args.offense).raised
       /\ ~history_normalize_state(args.state).raised
       /\ args.from_year >= 2015 /\ args.from_year <= EndYear

FormatGiven == strip(lower(args.format))

\* C21: ucr_forecast and ucr_history accept the format exactly when its
\* lower-cased, trimmed form is 'summary' or 'detailed' and reject every other
\* value with the 'Invalid format' error; an accepted 'summary' yields the
\* prose and an accepted 'detailed' the JSON, whatever the case of the letters.
C21_FormatAccepted ==
    FormatReached =>
        IF FormatGiven \in {SUMMARY, DETAILED}
        THEN /\ ~RaisedToolError(INVALID_FORMAT)
             /\ Len(calls) >= 1
             /\ Returned =>
                   outcome.value.format
                      = (IF FormatGiven = SUMMARY THEN "summary" ELSE "detailed")
        ELSE RaisedToolError(INVALID_FORMAT) /\ calls = <<>>

\* ' Detailed' is accepted by ucr_forecast and answered with the JSON
C21_Witness ==
    /\ tool = "ucr_forecast" /\ Returned
    /\ args.format = <<" ","D","e","t","a","i","l","e","d">>
    /\ outcome.value.format = "detailed"

-----------------------------------------------------------------------------
(* The entries of the invalid-offense error of ucr_compare *)

\* the lower-cased, trimmed input with a hyphen for every underscore
WithHyphens(input) ==
    LET given == strip(lower(input))
    IN  [i \in DOMAIN given |-> IF given[i] = "_" THEN "-" ELSE given[i]]

HasUnderscore(input) == \E i \in DOMAIN input : input[i] = "_"

\* C22: an entry of the invalid-offense error of ucr_compare reads 'Did you
\* mean "<canonical>"?' exactly when the lower-cased, trimmed input has an
\* underscore and is a canonical offense once every underscore is a hyphen;
\* every other entry reads 'is not recognized'; a suggested value is always
\* a canonical offense.
C22_UnderscoreHint ==
    (tool = "ucr_compare" /\ RaisedToolError(INVALID_LIST)) =>
        \A k \in DOMAIN outcome.exc.detail :
           LET entry == outcome.exc.detail[k]
           IN  /\ entry.text \in {"Did you mean", "is not recognized"}
               /\ entry.text = "Did you mean"
                     <=> /\ HasUnderscore(entry.input)
                         /\ WithHyphens(entry.input) \in VALID_OFFENSES
               /\ entry.text = "Did you mean" =>
                     /\ entry.suggestion \in VALID_OFFENSES
                     /\ entry.suggestion = WithHyphens(entry.input)

\* 'motor_vehicle-theft' gets the hint and 'burglary_crime' does not
C22_Witness ==
    /\ tool = "ucr_compare" /\ RaisedToolError(INVALID_LIST)
    /\ Len(outcome.exc.detail) = 2
    /\ outcome.exc.detail[1].text = "Did you mean"
    /\ outcome.exc.detail[1].suggestion = motor_vehicle_theft
    /\ outcome.exc.detail[2].text = "is not recognized"
    /\ HasUnderscore(outcome.exc.detail[2].input)

-----------------------------------------------------------------------------
(* The order of the lines of format_comparison_output *)

\* the kind of each line of the output, in order
Kinds == [k \in DOMAIN outcome.value |-> outcome.value[k].line]

\* the results that failed, by list position
FailedPositions == {i \in DOMAIN args.results : ~IsNone(args.results[i][4])}

\* some fetched prediction carries metadata
SomeMetadata ==
    \E k \in DOMAIN FetchedPositions :
        "metadata" \in DOMAIN args.results[FetchedPositions[k]][2]

\* C23: the lines of format_comparison_output are the title, a blank line,
\* the column header, one row per fetched offense, a blank line, then the
\* warning lines, then the error lines, then the footer as the last line
\* when a fetched prediction carries metadata; no warning comes before a
\* row, no error before a warning, and a failed offense has no row.
C23_LineOrder ==
    (tool = "format_comparison_output" /\ pc = "done") =>
        LET rows == Len(FetchedPositions)
        IN  /\ Len(Kinds) >= 4 + rows
            /\ Kinds[1] = "title" /\ Kinds[2] = "blank" /\ Kinds[3] = "header"
            /\ \A k \in 1..rows :
                  /\ Kinds[3 + k] = "row"
                  /\ outcome.value[3 + k].offense
                     = format_offense_name(args.results[FetchedPositions[k]][1])
            /\ Kinds[4 + rows] = "blank"
            /\ \A k \in (5 + rows)..Len(Kinds) :
                  Kinds[k] \in {"warning", "error", "blank", "footer"}
            /\ \A j, k \in DOMAIN Kinds :
                  j < k => /\ ~(Kinds[j] = "warning" /\ Kinds[k] = "row")
                           /\ ~(Kinds[j] = "error" /\ Kinds[k] = "warning")
                           /\ Kinds[j] # "footer"
            /\ Len(Lines("error")) = Cardinality(FailedPositions)
            /\ Kinds[Len(Kinds)] = "footer" <=> SomeMetadata
            /\ \A i \in FailedPositions : \A k \in DOMAIN Lines("row") :
                  Lines("row")[k].offense # format_offense_name(args.results[i][1])

\* a row, a warning for it, an error for the other offense and the footer
C23_Witness ==
    /\ tool = "format_comparison_output" /\ pc = "done"
    /\ Len(args.results) = 2
    /\ Kinds = <<"title", "blank", "header", "row", "blank", "warning", "blank",
                 "error", "blank", "footer">>

-----------------------------------------------------------------------------
(* The scope of the listing of ucr_info *)

\* the location the listing is asked for
Scope == IF args.state = None THEN NATIONAL ELSE strip(upper(args.state))

\* the catalog positions of that location, ascending
InScope ==
    Ascending({i \in DOMAIN Catalog :
                 "location" \in DOMAIN Catalog[i] /\ Catalog[i].location = Scope})

-----------------------------------------------------------------------------
(* fetch_national_history and fetch_state_history on their own *)

\* most keys of a response
MaxHistoryKeys == 3

M12 == <<"1","2">>

\* the keys of a response: <<key, normalized date, months since 2019, count>>
HISTORY_KEYS ==
    { <<ApiDate(M01, Y2020), IsoDate(Y2020, M01), 13, Number(20)>>,
      <<ApiDate(M02, Y2020), IsoDate(Y2020, M02), 14, Number(10)>>,
      <<ApiDate(M12, Y2020), IsoDate(Y2020, M12), 24, NoValue>>,
      <<ApiDate(M01, Y2021), IsoDate(Y2021, M01), 25, Number(30)>>,
      <<ApiDate(M02, Y2021), IsoDate(Y2021, M02), 26, Number(21)>> }

HistoryKeyOf(key) == CHOOSE row \in HISTORY_KEYS : row[1] = key

\* the keys of a JSON object in the order the response lists them: no key twice
HistoryKeyLists ==
    UNION { {keys \in [1..n -> {row[1] : row \in HISTORY_KEYS}] :
                \A i, j \in 1..n : keys[i] = keys[j] => i = j} : n \in 0..MaxHistoryKeys }

\* the body of the response that lists the given keys
HistoryBodyOf(keys) ==
    LET actuals == [k \in DOMAIN keys |-> <<keys[k], HistoryKeyOf(keys[k])[4]>>]
    IN  [offenses |->
           [actuals |-> [name \in {"United States Offenses", "Texas Offenses"} |-> actuals],
            rates |-> [name \in {"United States Offenses", "Texas Offenses"} |->
                          HistoryRates]]]

HISTORY_FETCHES == {"fetch_national_history", "fetch_state_history"}

InitHistoryRecords ==
    /\ tool \in HISTORY_FETCHES
    /\ pc = "idle"
    /\ args \in [keys : HistoryKeyLists]
    /\ locals = NoValue
    /\ calls = <<>>
    /\ tasks = <<>>
    /\ finished = <<>>
    /\ gathered = <<>>
    /\ outcome = NoOutcome

HistoryRecordsCall ==
    /\ tool \in HISTORY_FETCHES /\ pc = "idle"
    /\ Finish(IF tool = "fetch_national_history"
              THEN fetch_national_history(Response(200, HistoryBodyOf(args.keys)))
              ELSE fetch_state_history(<<"T","X">>,
                                       Response(200, HistoryBodyOf(args.keys))))
    /\ UNCHANGED <<tool, args, locals, calls, tasks, finished, gathered>>

NextHistoryRecords == HistoryRecordsCall

SpecHistoryRecords == InitHistoryRecords /\ [][NextHistoryRecords]_vars

\* the month a normalized date stands for, counted from the end of 2018
MonthOf(date) == (CHOOSE row \in HISTORY_KEYS : row[2] = date)[3]

CountOf(key) ==
    IF IsNone(HistoryKeyOf(key)[4]) THEN 0 ELSE HistoryKeyOf(key)[4].value

\* the listed key of the earliest and of the latest month
EarliestKey ==
    CHOOSE key \in {args.keys[k] : k \in DOMAIN args.keys} :
        \A k \in DOMAIN args.keys : HistoryKeyOf(key)[3] <= HistoryKeyOf(args.keys[k])[3]
LatestKey ==
    CHOOSE key \in {args.keys[k] : k \in DOMAIN args.keys} :
        \A k \in DOMAIN args.keys : HistoryKeyOf(key)[3] >= HistoryKeyOf(args.keys[k])[3]

\* C25: the list fetch_national_history and fetch_state_history return has
\* exactly one record for every MM-YYYY key of the response, carrying the
\* date as YYYY-MM, and is in ascending order of the months whatever the
\* order of the keys; the trend of the list is therefore the trend from the
\* earliest month to the latest.
C25_RecordsSorted ==
    (tool \in HISTORY_FETCHES /\ pc = "done") =>
        /\ ~outcome.raised
        /\ Len(outcome.value) = Len(args.keys)
        /\ \A k \in DOMAIN args.keys :
              \E r \in DOMAIN outcome.value :
                 /\ outcome.value[r].date = HistoryKeyOf(args.keys[k])[2]
                 /\ outcome.value[r].actual = CountOf(args.keys[k])
        /\ \A r \in 1..(Len(outcome.value) - 1) :
              MonthOf(outcome.value[r].date) < MonthOf(outcome.value[r + 1].date)
        /\ Len(args.keys) >= 2 =>
              calculate_trend(outcome.value)
                 = calculate_trend(<<[actual |-> CountOf(EarliestKey)],
                                     [actual |-> CountOf(LatestKey)]>>)

\* the keys 02-2020, 01-2021, 01-2020 come back as 2020-01, 2020-02, 2021-01
C25_Witness ==
    /\ tool = "fetch_national_history" /\ pc = "done"
    /\ args.keys = <<ApiDate(M02, Y2020), ApiDate(M01, Y2021), ApiDate(M01, Y2020)>>
    /\ [r \in DOMAIN outcome.value |-> outcome.value[r].date]
       = <<IsoDate(Y2020, M01), IsoDate(Y2020, M02), IsoDate(Y2021, M01)>>
    /\ calculate_trend(outcome.value)[1] = "Increasing"

-----------------------------------------------------------------------------
(* The two calls of ucr_forecast *)

\* ucr_forecast has passed its checks
ForecastStarted == tool = "ucr_forecast" /\ Len(calls) >= 1

\* the prediction request has been answered with a success
PredictionReturned ==
    /\ calls[1].answer.kind = "response"
    /\ calls[1].answer.status_code \in 200..299
    /\ IsJsonObject(calls[1].answer.body)

\* C26: ucr_forecast issues its history GET only when include_history is
\* true and only after the prediction POST has returned with a success: with
\* include_history false the POST is the one call made, with include_history
\* true and a prediction that succeeded one POST is followed by one GET, and
\* a prediction that failed is followed by no call.
C26_HistoryAfterPrediction ==
    ForecastStarted =>
        /\ Len(calls) <= 2
        /\ calls[1].method = "POST" /\ calls[1].endpoint = "/api/v1/predict"
        /\ Len(calls) = 2 =>
              /\ args.include_history
              /\ PredictionReturned
              /\ calls[2].method = "GET" /\ calls[2].endpoint = "/api/v1/history"
        /\ (pc = "predict") => (Len(calls) = 1 /\ calls[1].answer = Pending)
        /\ (pc = "done") =>
              /\ calls[1].answer # Pending
              /\ Len(calls) = 2 <=> (args.include_history /\ PredictionReturned)
              /\ Len(calls) = 2 => calls[2].answer # Pending

\* with include_history the prediction failed on a 404 and no GET followed
C26_Witness ==
    /\ tool = "ucr_forecast" /\ pc = "done"
    /\ args.include_history
    /\ Len(calls) = 1
    /\ calls[1].answer.kind = "response" /\ calls[1].answer.status_code = 404

-----------------------------------------------------------------------------
(* fetch_offense_data on its own *)

\* what the upstream may answer one of the two calls with
FetchAnswers(method) ==
    CompareAnswers([method |-> method]) \cup {Response(200, NotJson), Response(404, NotJson)}

InitFetchOffenseData ==
    /\ tool = "fetch_offense_data"
    /\ pc = "idle"
    /\ args \in [offense : {homicide, motor_vehicle_theft},
                 prediction_answer : FetchAnswers("POST"),
                 history_answer : FetchAnswers("GET"),
                 prediction_first : BOOLEAN]
    /\ locals = NoValue
    /\ calls = <<>>
    /\ tasks = <<>>
    /\ finished = <<>>
    /\ gathered = <<>>
    /\ outcome = NoOutcome

\* the coroutine starts its two calls and the one that ends first is answered
FetchFirstAnswer ==
    /\ tool = "fetch_offense_data" /\ pc = "idle"
    /\ LET started == [offense |-> args.offense, prediction |-> NoValue,
                       history |-> NoValue, done |-> FALSE, result |-> NoOutcome]
           after == task_after_answer(started, args.prediction_first,
                                      IF args.prediction_first THEN args.prediction_answer
                                      ELSE args.history_answer)
       IN  /\ tasks' = <<after>>
           /\ IF after.done THEN Finish(after.result)
              ELSE pc' = "gather" /\ UNCHANGED outcome
    /\ UNCHANGED <<tool, args, locals, calls, finished, gathered>>

\* the other call is answered while the coroutine still awaits it
FetchSecondAnswer ==
    /\ tool = "fetch_offense_data" /\ pc = "gather"
    /\ LET after == task_after_answer(tasks[1], ~args.prediction_first,
                                      IF args.prediction_first THEN args.history_answer
                                      ELSE args.prediction_answer)
       IN  /\ tasks' = <<after>>
           /\ IF after.done THEN Finish(after.result)
              ELSE UNCHANGED <<pc, outcome>>
    /\ UNCHANGED <<tool, args, locals, calls, finished, gathered>>

NextFetchOffenseData == FetchFirstAnswer \/ FetchSecondAnswer

SpecFetchOffenseData == InitFetchOffenseData /\ [][NextFetchOffenseData]_vars

\* the answer is a timeout, a refused connection or an error status
AnswerFailed(answer) ==
    \/ answer.kind \in {"timeout", "connect"}
    \/ answer.kind = "response" /\ answer.status_code \notin 200..299

AnswerSucceeded(answer) ==
    /\ answer.kind = "response" /\ answer.status_code \in 200..299
    /\ IsJsonObject(answer.body)

FailedShape(t) == /\ IsNone(t[2]) /\ IsNone(t[3])
                  /\ ~IsNone(t[4]) /\ t[4].text # ""

\* C27: a tuple returned by fetch_offense_data is (offense, prediction,
\* history, null) with both payloads, or (offense, null, null, message) with
\* a message that is not empty, and never anything else; when one of the two
\* calls fails with a timeout, an error status or a connection error and the
\* other succeeds, the tuple is of the second shape, the payload of the other
\* call left out; the first component is the offense passed in.
C27_TupleShapes ==
    (tool = "fetch_offense_data" /\ pc = "done") =>
        /\ ~outcome.raised =>
              /\ outcome.value[1] = args.offense
              /\ \/ /\ IsNone(outcome.value[4])
                    /\ outcome.value[2] = args.prediction_answer.body
                    /\ outcome.value[3] = args.history_answer.body
                    /\ AnswerSucceeded(args.prediction_answer)
                    /\ AnswerSucceeded(args.history_answer)
                 \/ FailedShape(outcome.value)
        /\ (\/ AnswerFailed(args.prediction_answer) /\ AnswerSucceeded(args.history_answer)
            \/ AnswerSucceeded(args.prediction_answer) /\ AnswerFailed(args.history_answer))
           => (~outcome.raised /\ FailedShape(outcome.value))

\* the history arrived first, then the prediction timed out: nothing is kept
C27_Witness ==
    /\ tool = "fetch_offense_data" /\ pc = "done"
    /\ ~args.prediction_first
    /\ AnswerSucceeded(args.history_answer)
    /\ args.prediction_answer = TimedOut
    /\ outcome.value = <<args.offense, NoValue, NoValue, Message("Request timed out")>>

-----------------------------------------------------------------------------
\* the calls of this invocation that nothing has answered yet
InFlight == {c \in DOMAIN calls : calls[c].answer = Pending}

-----------------------------------------------------------------------------
\* C29: in absolute mode the output of format_comparison_output has no
\* change column, no warning marker and no 'shows significant projected'
\* line, whatever the change of any offense, a change above 10 percent and a
\* change from 0 included; there is still one row for every fetched
\* offense, in list order, with its current and its forecast value.
C29_AbsoluteHasNoChange ==
    (tool = "format_comparison_output" /\ pc = "done" /\ args.metric = "absolute") =>
        LET fetched == FetchedPositions
            rows == Lines("row")
        IN  /\ \A l \in DOMAIN Lines("header") : ~Lines("header")[l].change_column
            /\ Len(Lines("header")) = 1
            /\ Lines("warning") = <<>>
            /\ Len(rows) = Len(fetched)
            /\ \A k \in DOMAIN rows :
                  /\ DOMAIN rows[k] = {"line", "offense", "current", "forecast"}
                  /\ rows[k].offense = format_offense_name(args.results[fetched[k]][1])
                  /\ rows[k].current = CurrentOf(fetched[k])
                  /\ rows[k].forecast = ForecastOf(fetched[k])

\* absolute mode with one offense up by 11 percent and one up from 0
C29_Witness ==
    /\ tool = "format_comparison_output" /\ pc = "done" /\ args.metric = "absolute"
    /\ Len(args.results) = 2
    /\ Len(FetchedPositions) = 2
    /\ CurrentOf(1) = 100 /\ ForecastOf(1) = 111
    /\ CurrentOf(2) = 0 /\ ForecastOf(2) = 5
    /\ Len(Lines("row")) = 2

-----------------------------------------------------------------------------
(* the three copies of normalize_offense side by side *)

InitNormalizeAll ==
    /\ tool = "normalize_offense (all)"
    /\ pc = "idle"
    /\ args \in [offense : NormalizeInputs]
    /\ locals = NoValue
    /\ calls = <<>>
    /\ tasks = <<>>
    /\ finished = <<>>
    /\ gathered = <<>>
    /\ outcome = NoOutcome

\* the input given to normalize_offense of each module
NormalizeAllCall ==
    /\ tool = "normalize_offense (all)" /\ pc = "idle"
    /\ Finish(Return([module \in MODULES |-> normalize_offense(module, args.offense)]))
    /\ UNCHANGED <<tool, args, locals, calls, tasks, finished, gathered>>

NextNormalizeAll == NormalizeAllCall

SpecNormalizeAll == InitNormalizeAll /\ [][NextNormalizeAll]_vars

\* the module's normalize_offense returned a canonical offense
Accepted(module) == ~outcome.value[module].raised

\* C30: the normalizers of ucr_compare, ucr_forecast and ucr_history never
\* give one input two canonical offenses: any two of them that accept an
\* input return the same offense for it; and an input the one of ucr_history
\* accepts is accepted by the one of ucr_forecast, with the same offense.
C30_NormalizersAgree ==
    (tool = "normalize_offense (all)" /\ pc = "done") =>
        /\ \A m1, m2 \in MODULES :
              (Accepted(m1) /\ Accepted(m2)) =>
                  outcome.value[m1].value = outcome.value[m2].value
        /\ Accepted("ucr_history") =>
              /\ Accepted("ucr_forecast")
              /\ outcome.value["ucr_forecast"].value = outcome.value["ucr_history"].value

\* an alias in capitals with white space around it, which all three accept
C30_Witness ==
    /\ tool = "normalize_offense (all)" /\ pc = "done"
    /\ args.offense = <<" ", "M", "V", "T", "\t">>
    /\ \A module \in MODULES : outcome.value[module] = Return(motor_vehicle_theft)

=============================================================================
